---- MODULE Spec2Model ----
(***************************************************************************)
(* Model of the ROS-message to Java-class generator:                       *)
(*   message_conversion/generate_spec.py   (resolver cache, build, fold)   *)
(*   message_conversion/java_class_spec.py (class tree, equality)          *)
(*   message_conversion/code_artifacts.py  (emitter)                       *)
(*   main.py                               (run driver)                    *)
(*                                                                         *)
(* A Python string is modelled as the sequence of its lexemes: a name is   *)
(* one lexeme, each of the separators "/", "[", "]" is a lexeme of its     *)
(* own, and a decimal number is one lexeme.  "pkg/B[2]" is                 *)
(* <<"pkg", "/", "B", "[", "2", "]">>.                                     *)
(***************************************************************************)
EXTENDS Integers, Sequences, FiniteSets, TLC

VARIABLES
    messages,        \* main.py: the root message instances of the run (their type names)
    blacklist,       \* main.py: type names of default_messages
    root_path,       \* main.py: output root path, a sequence of path segments
    pc,              \* position of generate_from_messages
    idx,             \* index of the root / registry entry handled next
    class_spec,      \* the JavaClassSpec built last
    MSG_CLASS_CACHE, \* generate_spec.py: module-level resolver cache
    resolve_calls,   \* ghost: names passed to get_msg_class, in call order
    lookups,         \* ghost: names for which import_module was invoked, in order
    unique_objects,  \* the registry: insertion-ordered sequence of [key, spec]
    written,         \* files written: sequence of [path, code]
    error,           \* the exception that ended the run / the last call ("" if none)
    last_fold,       \* ghost: argument, registry before and exception of the last fold
    last_call,       \* ghost: the last direct get_msg_class call
    emitted          \* ghost: the (input, output) pairs of direct emit calls

vars == <<messages, blacklist, root_path, pc, idx, class_spec, MSG_CLASS_CACHE,
          resolve_calls, lookups, unique_objects, written, error, last_fold,
          last_call, emitted>>

----------------------------------------------------------------------------
(* Bounds of the model *)

MaxRoots == 2
MaxCalls == 3
MaxFolds == 2
MaxEmits == 3
MaxJsonLen == 4
\* the depth of nested calls at which the interpreter raises RecursionError
\* (sys.getrecursionlimit(), 1000 by default), cut down
RecursionLimit == 5

----------------------------------------------------------------------------
(* Python helpers *)

Last(s) == s[Len(s)]

\* a value that is computed once and then held in a local variable or passed
\* as an argument: S is the one-element set of the results of using it
Once(S) == CHOOSE x \in S : TRUE

\* str.endswith(tok) for a one-lexeme suffix
EndsWith(s, tok) == Len(s) > 0 /\ Last(s) = tok

\* str.rfind(tok): 1-based index of the last occurrence, 0 when absent
RFind(s, tok) ==
    LET hits == {i \in 1..Len(s) : s[i] = tok}
    IN  IF hits = {} THEN 0 ELSE CHOOSE i \in hits : \A j \in hits : j <= i

\* str.split(sep): the pieces between the separator lexemes
RECURSIVE Split(_, _)
Split(s, sep) ==
    LET hits == {i \in 1..Len(s) : s[i] = sep}
    IN  IF hits = {} THEN <<s>>
        ELSE LET i == CHOOSE k \in hits : \A j \in hits : k <= j
             IN  <<SubSeq(s, 1, i - 1)>> \o Split(SubSeq(s, i + 1, Len(s)), sep)

\* str.replace(old, new) for one-lexeme old and new
Replace(s, old, new) == [i \in 1..Len(s) |-> IF s[i] = old THEN new ELSE s[i]]

\* the characters of a piece as one name
RECURSIVE Flat(_)
Flat(s) == IF s = <<>> THEN "" ELSE Head(s) \o Flat(Tail(s))

\* int(text) for the decimal numerals that occur
Numeral == ("0" :> 0) @@ ("1" :> 1) @@ ("2" :> 2) @@ ("3" :> 3) @@ ("4" :> 4)

\* dict[key] = value on an insertion-ordered dict, a sequence of [name, ...] items
DictKeys(d) == {d[i].name : i \in 1..Len(d)}
DictGet(d, k) == d[CHOOSE i \in 1..Len(d) : d[i].name = k]
DictSet(d, item) ==
    IF item.name \in DictKeys(d)
    THEN [i \in 1..Len(d) |-> IF d[i].name = item.name THEN item ELSE d[i]]
    ELSE Append(d, item)

----------------------------------------------------------------------------
(* constants.py *)

RosPrimitive ==
    {"bool", "byte", "char", "int8", "uint8", "int16", "uint16", "int32", "uint32",
     "int64", "uint64", "float32", "float64", "string", "time", "duration"}

ROS_TO_JAVA_PRIMITIVE_MAPPING ==
    [p \in RosPrimitive |->
        CASE p = "bool" -> "boolean"
          [] p \in {"int8", "byte"} -> "byte"
          [] p \in {"char", "uint8"} -> "char"
          [] p \in {"int16", "uint16"} -> "short"
          [] p \in {"int32", "uint32"} -> "int"
          [] p \in {"int64", "uint64"} -> "long"
          [] p = "float32" -> "float"
          [] p = "float64" -> "double"
          [] p = "string" -> "java.lang.String"
          [] p \in {"time", "duration"} -> "long"]

JavaPrimitive ==
    {"boolean", "byte", "char", "short", "int", "long", "float", "double",
     "java.lang.String"}

PYTHON_TO_JAVA_PRIMITIVE_MAPPING ==
    ("bool" :> "boolean") @@ ("int" :> "int") @@ ("float" :> "double")
    @@ ("str" :> "java.lang.String") @@ ("bytes" :> "java.lang.String")

PRIMITIVE_DEFAULTS ==
    [p \in JavaPrimitive |->
        CASE p = "boolean" -> "false"
          [] p \in {"byte", "short", "int", "long"} -> "0"
          [] p = "char" -> "'\\0'"
          [] p = "float" -> "0.0f"
          [] p = "double" -> "0.0"
          [] p = "java.lang.String" -> "\"\""]

PRIMITIVE_TO_JAVA_OBJECT ==
    [p \in JavaPrimitive |->
        CASE p = "boolean" -> "java.lang.Boolean"
          [] p = "byte" -> "java.lang.Byte"
          [] p = "char" -> "java.lang.Character"
          [] p = "short" -> "java.lang.Short"
          [] p = "int" -> "java.lang.Integer"
          [] p = "long" -> "java.lang.Long"
          [] p = "float" -> "java.lang.Float"
          [] p = "double" -> "java.lang.Double"
          [] p = "java.lang.String" -> "java.lang.String"]

\* {v: k for k, v in PRIMITIVE_TO_JAVA_OBJECT.items()}
JAVA_OBJECT_TO_PRIMITIVE ==
    [o \in {PRIMITIVE_TO_JAVA_OBJECT[p] : p \in JavaPrimitive} |->
        CHOOSE p \in JavaPrimitive : PRIMITIVE_TO_JAVA_OBJECT[p] = o]

\* the accessor a "{obj}.getAsX()" template applies, and its cast prefix
PRIMITIVE_JSON_FUNCTIONS ==
    [p \in JavaPrimitive |->
        CASE p = "boolean" -> <<"", "getAsBoolean">>
          [] p = "byte" -> <<"", "getAsByte">>
          [] p = "char" -> <<"(char)", "getAsByte">>
          [] p = "short" -> <<"", "getAsShort">>
          [] p = "int" -> <<"", "getAsInt">>
          [] p = "long" -> <<"", "getAsLong">>
          [] p = "float" -> <<"", "getAsFloat">>
          [] p = "double" -> <<"", "getAsDouble">>
          [] p = "java.lang.String" -> <<"", "getAsString">>]

----------------------------------------------------------------------------
(* The installed ROS message packages: what import_module and getattr find.   *)
(* A message instance is [type, slots, class_vars]: the slot names with their *)
(* type tags and current values (__slots__, _slot_types, getattr), and the    *)
(* entries of vars(cls) in definition order.                                  *)

PyVal(ty, v) == [ty |-> ty, v |-> v]
Slot(name, tag, value) == [name |-> name, tag |-> tag, value |-> value]
ClassVar(name, value, private, callable) ==
    [name |-> name, value |-> value, private |-> private, callable |-> callable]

TypeName(pkg, name) == <<pkg, "/", name>>
VarList(base) == base \o <<"[", "]">>
FixList(base, n) == base \o <<"[", n, "]">>

\* what every generated message class carries besides its constants and slots
ClassHead(type) ==
    <<ClassVar("_md5sum", PyVal("str", "md5"), TRUE, FALSE),
      ClassVar("_type", PyVal("str", Flat(type)), TRUE, FALSE)>>
ClassTail(slots) ==
    <<ClassVar("__slots__", PyVal("list", "slots"), TRUE, FALSE),
      ClassVar("_slot_types", PyVal("list", "types"), TRUE, FALSE),
      ClassVar("serialize", PyVal("function", "serialize"), FALSE, TRUE)>>
    \o [i \in 1..Len(slots) |->
           ClassVar(slots[i].name, PyVal("member", slots[i].name), FALSE, FALSE)]

Message(type, slots, consts) ==
    [type |-> type, slots |-> slots,
     class_vars |-> ClassHead(type)
                    \o [i \in 1..Len(consts) |->
                           ClassVar(consts[i][1], consts[i][2], FALSE, FALSE)]
                    \o ClassTail(slots)]

MsgA == Message(TypeName("pkg", "A"),
    <<Slot("x", <<"int32">>, PyVal("int", "0")),
      Slot("ys", VarList(<<"string">>), PyVal("list", "[]")),
      Slot("b", TypeName("pkg", "B"), PyVal("msg", "pkg/B"))>>,
    <<<<"LIMIT", PyVal("int", "5")>>>>)

MsgB == Message(TypeName("pkg", "B"),
    <<Slot("v", <<"float64">>, PyVal("float", "0.0"))>>, <<>>)

MsgC == Message(TypeName("pkg", "C"),
    <<Slot("items", FixList(TypeName("pkg", "D"), "2"), PyVal("list", "[D,D]")),
      Slot("stamp", <<"time">>, PyVal("Time", "0,0"))>>, <<>>)

MsgD == Message(TypeName("pkg", "D"),
    <<Slot("n", <<"int32">>, PyVal("int", "0")),
      Slot("p", TypeName("pkg", "B"), PyVal("msg", "pkg/B"))>>, <<>>)

MsgHeader == Message(TypeName("std_msgs", "Header"),
    <<Slot("seq", <<"uint32">>, PyVal("int", "0")),
      Slot("stamp", <<"time">>, PyVal("Time", "0,0")),
      Slot("frame_id", <<"string">>, PyVal("str", ""))>>, <<>>)

MsgE == Message(TypeName("pkg", "E"),
    <<Slot("header", TypeName("std_msgs", "Header"), PyVal("msg", "std_msgs/Header")),
      Slot("bs", VarList(TypeName("pkg", "B")), PyVal("list", "[]")),
      Slot("stamps", VarList(<<"time">>), PyVal("list", "[]")),
      Slot("durs", FixList(<<"duration">>, "2"), PyVal("list", "[0,0]")),
      Slot("arr", FixList(<<"int32">>, "3"), PyVal("list", "[0,0,0]"))>>,
    <<<<"DEBUG", PyVal("bool", "True")>>, <<"NAME", PyVal("str", "e")>>>>)

MsgBad == Message(TypeName("pkg", "Bad"),
    <<Slot("n", <<"int32">>, PyVal("int", "0")),
      Slot("m", TypeName("nopkg", "Missing"), PyVal("msg", "nopkg/Missing"))>>, <<>>)

\* instances a caller can hand over whose content is not what the installed
\* class constructs: same type name, other values, tags or slots
MsgBValue == Message(TypeName("pkg", "B"),
    <<Slot("v", <<"float64">>, PyVal("float", "1.0"))>>, <<>>)
MsgBKind == Message(TypeName("pkg", "B"),
    <<Slot("v", <<"float32">>, PyVal("float", "0.0"))>>, <<>>)
MsgBNames == Message(TypeName("pkg", "B"),
    <<Slot("v", <<"float64">>, PyVal("float", "0.0")),
      Slot("w", <<"float64">>, PyVal("float", "0.0"))>>, <<>>)
MsgBMsg == Message(TypeName("pkg", "B"),
    <<Slot("v", TypeName("pkg", "B"), PyVal("msg", "pkg/B"))>>, <<>>)

\* an instance of another version of pkg/D: the same slots, declared in the
\* other order
MsgDSwapped == Message(TypeName("pkg", "D"),
    <<Slot("p", TypeName("pkg", "B"), PyVal("msg", "pkg/B")),
      Slot("n", <<"int32">>, PyVal("int", "0"))>>, <<>>)

\* an instance of a message without slots
MsgEmpty == Message(TypeName("std_msgs", "Empty"), <<>>, <<>>)

\* instances of classes whose names come close to one another once the
\* std_msgs class names are prefixed
MsgRosHeader == Message(TypeName("std_msgs", "RosHeader"),
    <<Slot("seq", <<"uint32">>, PyVal("int", "0"))>>, <<>>)
MsgPkgHeader == Message(TypeName("pkg", "Header"),
    <<Slot("seq", <<"uint32">>, PyVal("int", "0"))>>, <<>>)
MsgPkgRosHeader == Message(TypeName("pkg", "RosHeader"),
    <<Slot("seq", <<"uint32">>, PyVal("int", "0"))>>, <<>>)
MsgRosPkgHeader == Message(TypeName("Ros", "Header"),
    <<Slot("seq", <<"uint32">>, PyVal("int", "0"))>>, <<>>)

Installed == {MsgA, MsgB, MsgC, MsgD, MsgE, MsgHeader, MsgBad}

\* message classes whose definition refers back to itself: directly, through
\* a second class and a list, and a class that merely holds one of them
MsgLoop == Message(TypeName("pkg", "Loop"),
    <<Slot("n", <<"int32">>, PyVal("int", "0")),
      Slot("next", TypeName("pkg", "Loop"), PyVal("msg", "pkg/Loop"))>>, <<>>)
MsgPing == Message(TypeName("pkg", "Ping"),
    <<Slot("pongs", VarList(TypeName("pkg", "Pong")), PyVal("list", "[]"))>>, <<>>)
MsgPong == Message(TypeName("pkg", "Pong"),
    <<Slot("ping", TypeName("pkg", "Ping"), PyVal("msg", "pkg/Ping"))>>, <<>>)
MsgHolder == Message(TypeName("pkg", "Holder"),
    <<Slot("b", TypeName("pkg", "B"), PyVal("msg", "pkg/B")),
      Slot("loop", TypeName("pkg", "Loop"), PyVal("msg", "pkg/Loop"))>>, <<>>)

InstalledCyclic == {MsgLoop, MsgPing, MsgPong, MsgHolder}

\* sys.modules after import_module(pkg + ".msg"): the classes of each package
Packages == {Flat(Split(m.type, "/")[1]) : m \in Installed \cup InstalledCyclic}
HasClass(pkg, name) ==
    \E m \in Installed \cup InstalledCyclic : m.type = TypeName(pkg, name)
\* msg_class(): a fresh default-constructed instance
Instance(cls) ==
    CHOOSE m \in Installed \cup InstalledCyclic : m.type = TypeName(cls[1], cls[2])

----------------------------------------------------------------------------
(* java_class_spec.py *)

JavaMessageField(value, msg_type, size) ==
    [cls |-> "JavaMessageField", value |-> value, msg_type |-> msg_type, size |-> size]

\* JavaClassSpec.__init__
JavaClassSpec(msg_type_name, size) ==
    [cls |-> "JavaClassSpec", msg_type |-> msg_type_name, size |-> size,
     fields |-> <<>>, constants |-> <<>>]

add_constant(self, name, value) ==
    [self EXCEPT !.constants = DictSet(@, [name |-> name, value |-> value])]

add_field(self, name, value, msg_type, size) ==
    [self EXCEPT !.fields =
        DictSet(@, [name |-> name, field |-> JavaMessageField(value, msg_type, size)])]

add_sub_spec(self, name, spec) ==
    [self EXCEPT !.fields = DictSet(@, [name |-> name, field |-> spec])]

\* JavaTimeSpec.__init__ / JavaDurationSpec.__init__
TemporalSpec(cls, msg_type_name) ==
    add_field(
        add_field([JavaClassSpec(<<msg_type_name>>, -1) EXCEPT !.cls = cls],
                  "secs", PyVal("int", "0"), "int", -1),
        "nsecs", PyVal("int", "0"), "int", -1)

JavaTimeSpec == TemporalSpec("JavaTimeSpec", "Time")
JavaDurationSpec == TemporalSpec("JavaDurationSpec", "Duration")

\* isinstance(x, JavaClassSpec): the class or one of its two subclasses
IsClassSpec(x) == x.cls \in {"JavaClassSpec", "JavaTimeSpec", "JavaDurationSpec"}

\* JavaClassSpec.__eq__ (and the != Python derives from it)
RECURSIVE SpecEq(_, _)
\* __eq__ comparing the keys as lists
SpecEqOrdered(self, other) ==
    IF other.cls = "JavaClassSpec"
    THEN IF [i \in 1..Len(self.fields) |-> self.fields[i].name]
               # [i \in 1..Len(other.fields) |-> other.fields[i].name]
         THEN FALSE
         ELSE \A i \in 1..Len(self.fields) :
                LET field == self.fields[i].field
                    other_field == DictGet(other.fields, self.fields[i].name).field
                IN  /\ field.cls = other_field.cls
                    /\ ~ (/\ field.cls = "JavaMessageField"
                          /\ (\/ field.value # other_field.value
                              \/ field.msg_type # other_field.msg_type))
                    /\ ~ (/\ field.cls = "JavaClassSpec"
                          /\ ~ SpecEq(field, other_field))
    ELSE FALSE

\* __eq__ without the comparison of field.msg_type
SpecEqNoType(self, other) ==
    IF other.cls = "JavaClassSpec"
    THEN IF DictKeys(self.fields) # DictKeys(other.fields)
         THEN FALSE
         ELSE \A i \in 1..Len(self.fields) :
                LET field == self.fields[i].field
                    other_field == DictGet(other.fields, self.fields[i].name).field
                IN  /\ field.cls = other_field.cls
                    /\ ~ (/\ field.cls = "JavaMessageField"
                          /\ field.value # other_field.value)
                    /\ ~ (/\ field.cls = "JavaClassSpec"
                          /\ ~ SpecEq(field, other_field))
    ELSE FALSE

\* __eq__ without the comparison of field.value
SpecEqNoValue(self, other) ==
    IF other.cls = "JavaClassSpec"
    THEN IF DictKeys(self.fields) # DictKeys(other.fields)
         THEN FALSE
         ELSE \A i \in 1..Len(self.fields) :
                LET field == self.fields[i].field
                    other_field == DictGet(other.fields, self.fields[i].name).field
                IN  /\ field.cls = other_field.cls
                    /\ ~ (/\ field.cls = "JavaMessageField"
                          /\ field.msg_type # other_field.msg_type)
                    /\ ~ (/\ field.cls = "JavaClassSpec"
                          /\ ~ SpecEq(field, other_field))
    ELSE FALSE

SpecEq(self, other) ==
    IF other.cls = "JavaClassSpec"
    THEN IF DictKeys(self.fields) # DictKeys(other.fields)
         THEN FALSE
         ELSE \A i \in 1..Len(self.fields) :
                LET field == self.fields[i].field
                    other_field == DictGet(other.fields, self.fields[i].name).field
                IN  /\ field.cls = other_field.cls
                    /\ ~ (/\ field.cls = "JavaMessageField"
                          /\ (\/ field.value # other_field.value
                              \/ field.msg_type # other_field.msg_type))
                    /\ ~ (/\ field.cls = "JavaClassSpec"
                          /\ ~ SpecEq(field, other_field))
    ELSE FALSE

----------------------------------------------------------------------------
(* generate_spec.py *)

\* get_msg_class without the test "msg_type_name not in MSG_CLASS_CACHE"
get_msg_class_uncached(cache, msg_type_name) ==
    LET connection_header == Split(msg_type_name, "/")
    IN  IF Len(connection_header) # 2
        THEN [cache |-> cache, looked |-> <<>>, err |-> "ValueError"]
        ELSE LET ros_pkg == Flat(connection_header[1])
                 msg_type == Flat(connection_header[2])
             IN  IF ros_pkg \notin Packages
                 THEN [cache |-> cache, looked |-> <<msg_type_name>>,
                       err |-> "ModuleNotFoundError"]
                 ELSE IF ~ HasClass(ros_pkg, msg_type)
                 THEN [cache |-> cache, looked |-> <<msg_type_name>>,
                       err |-> "AttributeError"]
                 ELSE [cache |-> [n \in DOMAIN cache \cup {msg_type_name} |->
                                     IF n = msg_type_name THEN <<ros_pkg, msg_type>>
                                     ELSE cache[n]],
                       looked |-> <<msg_type_name>>, err |-> ""]

\* The resolver.  The result carries the cache after the call, the names for
\* which the external lookup (import_module + getattr) ran, and the exception.
get_msg_class(cache, msg_type_name) ==
    IF msg_type_name \notin DOMAIN cache
    THEN LET connection_header == Split(msg_type_name, "/")
         IN  IF Len(connection_header) # 2
             THEN [cache |-> cache, looked |-> <<>>, err |-> "ValueError"]
             ELSE LET ros_pkg == Flat(connection_header[1])
                      msg_type == Flat(connection_header[2])
                  IN  IF ros_pkg \notin Packages
                      THEN [cache |-> cache, looked |-> <<msg_type_name>>,
                            err |-> "ModuleNotFoundError"]
                      ELSE IF ~ HasClass(ros_pkg, msg_type)
                      THEN [cache |-> cache, looked |-> <<msg_type_name>>,
                            err |-> "AttributeError"]
                      ELSE [cache |-> cache @@ (msg_type_name :> <<ros_pkg, msg_type>>),
                            looked |-> <<msg_type_name>>, err |-> ""]
    ELSE [cache |-> cache, looked |-> <<>>, err |-> ""]

is_msg_type_list(msg_type_name) == EndsWith(msg_type_name, "]")

\* re.search(r"^.+\[(\d+)\]", name): the last "[digits]" with something before it
get_list_size(msg_type_name) ==
    LET hits == {i \in 2..(Len(msg_type_name) - 2) :
                    /\ msg_type_name[i] = "["
                    /\ msg_type_name[i + 1] \in DOMAIN Numeral
                    /\ msg_type_name[i + 2] = "]"}
    IN  IF hits = {} THEN 0
        ELSE Numeral[msg_type_name[(CHOOSE i \in hits : \A j \in hits : j <= i) + 1]]

get_list_type(msg_type_name) ==
    IF is_msg_type_list(msg_type_name)
    THEN LET index == RFind(msg_type_name, "[")
         IN  IF index = 0
             THEN SubSeq(msg_type_name, 1, Len(msg_type_name) - 1)
             ELSE SubSeq(msg_type_name, 1, index - 1)
    ELSE msg_type_name

\* the constants of a message instance, as [name, value] in vars(cls) order
get_message_constants(msg_instance) ==
    LET slots == {msg_instance.slots[i].name : i \in 1..Len(msg_instance.slots)}
        props == SelectSeq(msg_instance.class_vars,
                           LAMBDA a : ~ a.private /\ ~ a.callable)
        constants == {props[i].name : i \in 1..Len(props)} \ slots
        kept == SelectSeq(props, LAMBDA a : a.name \in constants)
    IN  [i \in 1..Len(kept) |-> [name |-> kept[i].name, value |-> kept[i].value]]

\* RosPrimitive(data_type) for an enumeration without time and duration
ToRosPrimitiveNoTemporal(data_type) ==
    IF Flat(data_type) \in RosPrimitive \ {"time", "duration"}
    THEN Flat(data_type) ELSE "None"

\* try: RosPrimitive(data_type) except ValueError: None
ToRosPrimitive(data_type) ==
    IF Flat(data_type) \in RosPrimitive THEN Flat(data_type) ELSE "None"

\* The builder.  st = [cache, calls, looked, err, depth] is threaded through
\* the walk: MSG_CLASS_CACHE, the names passed to get_msg_class, the names
\* looked up externally, the exception that ended the walk ("" while it runs),
\* and the number of java_class_spec_generator calls that are active.
\* A step returns [spec, st].
RECURSIVE java_class_spec_generator(_, _, _)
RECURSIVE GenerateSlots(_, _, _, _)

\* the walk's state after get_msg_class returned r for data_type
AfterResolve(st, data_type, r) ==
    [cache |-> r.cache, calls |-> Append(st.calls, data_type),
     looked |-> st.looked \o r.looked, err |-> r.err, depth |-> st.depth]

\* lines 140-141, given the sub-message's finished walk: the nested call has
\* returned or raised, and its frame is gone
AttachSubMsg(spec, name, sub) ==
    [spec |-> add_sub_spec(spec, name, sub.spec),
     st |-> [sub.st EXCEPT !.depth = @ - 1]]

\* lines 139-141: the field is a message; st1 is the state after get_msg_class.
\* The nested call of line 141 is one more active call: the interpreter raises
\* RecursionError in place of a call beyond its limit.
SubMsgField(spec, name, data_type, size, st1) ==
    IF st1.err # ""
    THEN [spec |-> spec, st |-> st1]
    ELSE IF st1.depth >= RecursionLimit
    THEN [spec |-> add_sub_spec(spec, name, JavaClassSpec(data_type, size)),
          st |-> [st1 EXCEPT !.err = "RecursionError"]]
    ELSE Once({AttachSubMsg(spec, name, sub) :
                  sub \in {java_class_spec_generator(a[1], a[2], a[3]) :
                              a \in {<<JavaClassSpec(data_type, size),
                                       Instance(st1.cache[data_type]),
                                       [st1 EXCEPT !.depth = @ + 1]>>}}})

\* lines 138-152: the dispatch on the primitive found for the base type
TypedField(spec, name, data_type, data_primitive, size, value, st) ==
    IF data_primitive = "None"
    THEN Once({SubMsgField(spec, name, data_type, size, st1) :
                  st1 \in {AfterResolve(st, data_type,
                                        get_msg_class(st.cache, data_type))}})
    ELSE IF data_primitive = "time"
    THEN [spec |-> add_sub_spec(spec, name, JavaTimeSpec), st |-> st]
    ELSE IF data_primitive = "duration"
    THEN [spec |-> add_sub_spec(spec, name, JavaDurationSpec), st |-> st]
    ELSE [spec |-> add_field(spec, name, value,
                             ROS_TO_JAVA_PRIMITIVE_MAPPING[data_primitive], size),
          st |-> st]

\* lines 128-132, given the base type
BaseTypedField(spec, name, data_type, size, value, st) ==
    Once({TypedField(spec, name, data_type, data_primitive, size, value, st) :
             data_primitive \in {ToRosPrimitive(data_type)}})

\* lines 121-126: one iteration of the loop, for the slot (name, tag, value)
SlotField(spec, slot, st) ==
    IF is_msg_type_list(slot.tag)
    THEN Once({BaseTypedField(spec, slot.name, t[2], t[1], slot.value, st) :
                  t \in {<<get_list_size(slot.tag), get_list_type(slot.tag)>>}})
    ELSE BaseTypedField(spec, slot.name, slot.tag, -1, slot.value, st)

\* the loop goes on from slot i with the result r of the slot before
NextSlots(r, msg_instance, i) == GenerateSlots(r.spec, msg_instance, i, r.st)

\* line 117: the loop over zip(__slots__, _slot_types), from slot i on
GenerateSlots(spec, msg_instance, i, st) ==
    IF st.err # "" \/ i > Len(msg_instance.slots)
    THEN [spec |-> spec, st |-> st]
    ELSE Once({NextSlots(r, msg_instance, i + 1) :
                  r \in {SlotField(spec, slot, st) : slot \in {msg_instance.slots[i]}}})

\* the loop over get_message_constants(msg_instance).items(), from item i on
RECURSIVE AddConstants(_, _, _)
AddConstants(spec, consts, i) ==
    IF i > Len(consts) THEN spec
    ELSE AddConstants(add_constant(spec, consts[i].name, consts[i].value), consts, i + 1)

\* lines 154-156, given the result r of the loop over the slots
WithConstants(r, msg_instance) ==
    IF r.st.err # "" THEN r
    ELSE [spec |-> AddConstants(r.spec, get_message_constants(msg_instance), 1),
          st |-> r.st]

java_class_spec_generator(spec, msg_instance, st) ==
    Once({WithConstants(r, msg_instance) :
             r \in {GenerateSlots(spec, msg_instance, 1, st)}})

\* The dedup registry.  unique_objects is an insertion-ordered dict, a sequence
\* of [name |-> type name, spec |-> JavaClassSpec]; blacklist is used for
\* membership only.  The result is the registry after the call and the exception.
RECURSIVE filter_unique_objects(_, _, _)
RECURSIVE FilterFields(_, _, _, _)

\* the loop goes on from field i with the result r of the fold before
NextFields(r, spec, i, bl) ==
    IF r.err # "" THEN r ELSE FilterFields(r.objs, spec, i, bl)

\* lines 186-188 left out: no fold of the fields
FilterNoFields(objs, spec, i, bl) == [objs |-> objs, err |-> ""]

\* lines 186-188: the loop over class_spec.fields.values(), from field i on
FilterFields(objs, spec, i, bl) ==
    IF i > Len(spec.fields) THEN [objs |-> objs, err |-> ""]
    ELSE IF spec.fields[i].field.cls = "JavaClassSpec"
    THEN NextFields(filter_unique_objects(objs, spec.fields[i].field, bl),
                    spec, i + 1, bl)
    ELSE FilterFields(objs, spec, i + 1, bl)

\* filter_unique_objects on a list of entries instead of a dict
FilterAppendAlways(objs, spec, bl) ==
    IF spec.msg_type \in bl
    THEN [objs |-> objs, err |-> ""]
    ELSE FilterFields(Append(objs, [name |-> spec.msg_type, spec |-> spec]),
                      spec, 1, bl)

\* filter_unique_objects storing the node also when its type name is stored
FilterReplace(objs, spec, bl) ==
    IF spec.msg_type \in bl
    THEN [objs |-> objs, err |-> ""]
    ELSE IF spec.msg_type \in DictKeys(objs)
            /\ ~ SpecEq(DictGet(objs, spec.msg_type).spec, spec)
    THEN [objs |-> objs, err |-> "AssertionError"]
    ELSE FilterFields(DictSet(objs, [name |-> spec.msg_type, spec |-> spec]),
                      spec, 1, bl)

\* filter_unique_objects without lines 172-173
FilterNoBlacklist(objs, spec, bl) ==
    IF spec.msg_type \in DictKeys(objs)
    THEN IF SpecEq(DictGet(objs, spec.msg_type).spec, spec)
         THEN FilterFields(objs, spec, 1, bl)
         ELSE [objs |-> objs, err |-> "AssertionError"]
    ELSE FilterFields(DictSet(objs, [name |-> spec.msg_type, spec |-> spec]),
                      spec, 1, bl)

filter_unique_objects(objs, spec, bl) ==
    IF spec.msg_type \in bl
    THEN [objs |-> objs, err |-> ""]
    ELSE IF spec.msg_type \in DictKeys(objs)
    THEN IF SpecEq(DictGet(objs, spec.msg_type).spec, spec)
         THEN FilterFields(objs, spec, 1, bl)
         ELSE [objs |-> objs, err |-> "AssertionError"]
    ELSE FilterFields(DictSet(objs, [name |-> spec.msg_type, spec |-> spec]),
                      spec, 1, bl)

----------------------------------------------------------------------------
(* code_artifacts.py.  Emitted Java text is modelled template by template: a  *)
(* template instance is a record of the strings that fill its holes.  Type    *)
(* names, package names and paths are the real strings.                       *)

\* the camelCase form of a name is written camel<name>; the character-level
\* rewrite (re.sub, title, replace) is not modelled
camel_case(snake_str) == "camel<" \o snake_str \o ">"

\* the class name without the special case
NoSpecialCase(package, class_name) == class_name

get_class_special_case_package(package, class_name) ==
    IF package = "std_msgs" THEN "Ros" \o class_name ELSE class_name

\* whether get_full_type's "package, class_name = ....split('.')" unpacks
FullTypeUnpacks(field) ==
    LET field_java_type == Replace(field.msg_type, "/", ".")
    IN  (\E i \in 1..Len(field_java_type) : field_java_type[i] = ".")
            => Len(Split(field_java_type, ".")) = 2

get_full_type(package_root, field) ==
    LET field_java_type == Replace(field.msg_type, "/", ".")
    IN  IF \E i \in 1..Len(field_java_type) : field_java_type[i] = "."
        THEN LET parts == Split(field_java_type, ".")
                 package == Flat(parts[1])
                 class_name == get_class_special_case_package(package, Flat(parts[2]))
             IN  package_root \o package \o "." \o class_name
        ELSE package_root \o Flat(field_java_type)

getter_template(full_type, name) ==
    [type |-> full_type, method |-> camel_case("get_" \o name), name |-> name]

setter_template(full_type, name) ==
    [type |-> full_type, method |-> camel_case("set_" \o name), name |-> name]

\* PRIMITIVE_JSON_FUNCTIONS[p].format(obj=obj)
FormatJson(template, obj) == template[1] \o obj \o "." \o template[2] \o "()"

\* f"new {full_type}({{obj}}.getAsJsonObject())".format(obj=obj)
FormatNew(full_type, obj) == "new " \o full_type \o "(" \o obj \o ".getAsJsonObject())"

\* GeneratedCodeArtifacts, with the imports the generator added
Artifacts(imports, fields_code, arg, arg_assignment, getter, setter, json_constructor) ==
    [imports |-> imports, fields_code |-> fields_code, arg |-> arg,
     arg_assignment |-> arg_assignment, getter |-> getter, setter |-> setter,
     json_constructor |-> json_constructor]

generate_code_from_field(package_root, name, field) ==
    LET field_java_type == field.msg_type
    IN  Artifacts({},
            [type |-> field_java_type, name |-> name,
             init |-> <<PRIMITIVE_DEFAULTS[field.msg_type]>>],
            [type |-> field_java_type, name |-> name],
            [kind |-> "assign", name |-> name, size |-> -1],
            getter_template(field_java_type, name),
            setter_template(field_java_type, name),
            [kind |-> "assign", name |-> name,
             expr |-> FormatJson(PRIMITIVE_JSON_FUNCTIONS[field.msg_type],
                                 "jsonObj.get(\"" \o name \o "\")")])

generate_code_from_arraylist_type(name, full_type) ==
    LET array_type == "ArrayList<" \o full_type \o ">"
        element == name \o "_element"
        new_from_json_code ==
            IF full_type \in DOMAIN JAVA_OBJECT_TO_PRIMITIVE
            THEN FormatJson(PRIMITIVE_JSON_FUNCTIONS[JAVA_OBJECT_TO_PRIMITIVE[full_type]],
                            element)
            ELSE FormatNew(full_type, element)
    IN  Artifacts({"import java.util.ArrayList;", "import java.util.Arrays;",
                   "import com.google.gson.JsonElement;"},
            [type |-> array_type, name |-> name, init |-> <<"new ArrayList<>()">>],
            [type |-> full_type \o "[]", name |-> name],
            [kind |-> "asList", name |-> name, size |-> 0],
            getter_template(array_type, name),
            setter_template(array_type, name),
            [kind |-> "add", name |-> name, expr |-> new_from_json_code])

\* generate_code_from_static_array_type with one initial value too few
StaticArrayOneShort(name, full_type, size) ==
    LET element == name \o "_element"
        primitive == JAVA_OBJECT_TO_PRIMITIVE[full_type]
        new_value_code ==
            IF full_type \in DOMAIN JAVA_OBJECT_TO_PRIMITIVE
            THEN PRIMITIVE_DEFAULTS[primitive]
            ELSE "new " \o full_type \o "()"
        new_from_json_code ==
            IF full_type \in DOMAIN JAVA_OBJECT_TO_PRIMITIVE
            THEN FormatJson(PRIMITIVE_JSON_FUNCTIONS[primitive], element)
            ELSE FormatNew(full_type, element)
        static_array_values == [index \in 1..(size - 1) |-> new_value_code]
        array_type == full_type \o "[]"
    IN  Artifacts({"import com.google.gson.JsonElement;"},
            [type |-> array_type, name |-> name,
             init |-> <<"new " \o array_type>> \o static_array_values],
            [type |-> array_type, name |-> name],
            [kind |-> "copy", name |-> name, size |-> size],
            getter_template(array_type, name),
            setter_template(array_type, name),
            [kind |-> "index", name |-> name, expr |-> new_from_json_code])

generate_code_from_static_array_type(name, full_type, size) ==
    LET element == name \o "_element"
        primitive == JAVA_OBJECT_TO_PRIMITIVE[full_type]
        new_value_code ==
            IF full_type \in DOMAIN JAVA_OBJECT_TO_PRIMITIVE
            THEN PRIMITIVE_DEFAULTS[primitive]
            ELSE "new " \o full_type \o "()"
        new_from_json_code ==
            IF full_type \in DOMAIN JAVA_OBJECT_TO_PRIMITIVE
            THEN FormatJson(PRIMITIVE_JSON_FUNCTIONS[primitive], element)
            ELSE FormatNew(full_type, element)
        static_array_values == [index \in 1..size |-> new_value_code]
        array_type == full_type \o "[]"
    IN  Artifacts({"import com.google.gson.JsonElement;"},
            [type |-> array_type, name |-> name,
             init |-> <<"new " \o array_type>> \o static_array_values],
            [type |-> array_type, name |-> name],
            [kind |-> "copy", name |-> name, size |-> size],
            getter_template(array_type, name),
            setter_template(array_type, name),
            [kind |-> "index", name |-> name, expr |-> new_from_json_code])

\* What the emitted JSON-read statement of a field does when the generated
\* constructor runs on a JSON array of json_len elements, the field's array
\* having array_len elements: the exception Java raises, "" if none.  The
\* static-array loop stores element k at index k and compares no lengths.
ExecJsonRead(json_constructor, array_len, json_len) ==
    IF json_constructor.kind = "index" /\ json_len > array_len
    THEN "ArrayIndexOutOfBoundsException"
    ELSE ""

\* the indices the statement has assigned when it ends
AssignedByJsonRead(json_constructor, array_len, json_len) ==
    IF json_constructor.kind = "index"
    THEN {k \in 0..(array_len - 1) : k < json_len}
    ELSE {}

generate_code_from_field_variable_list(package_root, name, field) ==
    generate_code_from_arraylist_type(name, PRIMITIVE_TO_JAVA_OBJECT[field.msg_type])

generate_code_from_field_static_list(package_root, name, field) ==
    generate_code_from_static_array_type(
        name, PRIMITIVE_TO_JAVA_OBJECT[field.msg_type], field.size)

generate_code_from_spec_sub_msg(package_root, name, field) ==
    LET full_type == get_full_type(package_root, field)
    IN  Artifacts({},
            [type |-> full_type, name |-> name, init |-> <<"new " \o full_type \o "()">>],
            [type |-> full_type, name |-> name],
            [kind |-> "assign", name |-> name, size |-> -1],
            getter_template(full_type, name),
            setter_template(full_type, name),
            [kind |-> "assign", name |-> name,
             expr |-> FormatNew(full_type, "jsonObj.get(\"" \o name \o "\")")])

generate_code_from_spec_variable_list(package_root, name, field) ==
    generate_code_from_arraylist_type(name, get_full_type(package_root, field))

generate_code_from_spec_static_list(package_root, name, field) ==
    generate_code_from_static_array_type(
        name, get_full_type(package_root, field), field.size)

\* os.path.normpath on a relative path: empty and "." pieces dropped
NormPath(path) ==
    LET pieces == SelectSeq(Split(path, "/"), LAMBDA x : x # <<>> /\ x # <<".">>)
    IN  IF pieces = <<>> THEN <<<<".">>>> ELSE pieces

\* ".".join(pieces)
RECURSIVE JoinDot(_)
JoinDot(pieces) ==
    IF pieces = <<>> THEN ""
    ELSE IF Len(pieces) = 1 THEN Flat(pieces[1])
    ELSE Flat(pieces[1]) \o "." \o JoinDot(Tail(pieces))

get_package_root(path) ==
    LET package_root == JoinDot(NormPath(path))
    IN  IF package_root # "" THEN package_root \o "." ELSE package_root

\* the package root chosen without the blacklist
NeverInBlacklist(field, bl) == FALSE

\* "field.msg_type in blacklist": a JavaPrimitive member equals no string
InBlacklist(field, bl) == field.cls # "JavaMessageField" /\ field.msg_type \in bl

\* one iteration of the loop over spec.fields.items(): the artifacts of a field
FieldCode(project_package_root, external_package, bl, name, field) ==
    LET package_root == IF InBlacklist(field, bl)
                        THEN external_package
                        ELSE project_package_root
    IN  IF field.cls = "JavaMessageField"
        THEN IF field.size = -1
             THEN generate_code_from_field(package_root, name, field)
             ELSE IF field.size = 0
             THEN generate_code_from_field_variable_list(package_root, name, field)
             ELSE generate_code_from_field_static_list(package_root, name, field)
        ELSE IF field.size = -1
             THEN generate_code_from_spec_sub_msg(package_root, name, field)
             ELSE IF field.size = 0
             THEN generate_code_from_spec_variable_list(package_root, name, field)
             ELSE generate_code_from_spec_static_list(package_root, name, field)

\* the exception generate_java_code_from_spec raises on this input, "" if none
EmitError(spec) ==
    IF Len(Split(spec.msg_type, "/")) # 2 THEN "ValueError"
    ELSE IF \E i \in 1..Len(spec.fields) :
               LET field == spec.fields[i].field
               IN  \/ ~ (field.cls = "JavaMessageField" \/ IsClassSpec(field))
                   \/ (IsClassSpec(field) /\ ~ FullTypeUnpacks(field))
    THEN "ValueError"
    ELSE IF \E i \in 1..Len(spec.constants) :
               spec.constants[i].value.ty \notin DOMAIN PYTHON_TO_JAVA_PRIMITIVE_MAPPING
    THEN "KeyError"
    ELSE ""

\* the class text with the full-argument constructor written unconditionally
PartsAlwaysArgs(spec, project_package_root, package_name, class_name, external_package, results) ==
    [path |-> package_name \o "/" \o class_name \o ".java",
     imports |-> UNION {results[i].imports : i \in 1..Len(results)}
                 \cup {"import com.google.gson.JsonObject;",
                       "import com.google.gson.annotations.Expose;"},
     package |-> project_package_root \o package_name,
     class_name |-> class_name,
     extends |-> external_package \o "RosMessage",
     constants_code |->
         [i \in 1..Len(spec.constants) |->
             [type |-> PYTHON_TO_JAVA_PRIMITIVE_MAPPING[spec.constants[i].value.ty],
              name |-> spec.constants[i].name,
              value |-> spec.constants[i].value.v]],
     fields_code |-> [i \in 1..Len(results) |-> results[i].fields_code],
     type |-> Flat(spec.msg_type),
     args_constructor |->
         <<[args |-> [i \in 1..Len(results) |-> results[i].arg],
            arg_assignment |->
                [i \in 1..Len(results) |-> results[i].arg_assignment]]>>,
     json_constructor |-> [i \in 1..Len(results) |-> results[i].json_constructor],
     getters |-> [i \in 1..Len(results) |-> results[i].getter],
     setters |-> [i \in 1..Len(results) |-> results[i].setter]]

\* lines 477-540 without the import block, given the artifacts of the fields
PartsOf(spec, project_package_root, package_name, class_name, external_package, results) ==
    [path |-> package_name \o "/" \o class_name \o ".java",
     imports |-> UNION {results[i].imports : i \in 1..Len(results)}
                 \cup {"import com.google.gson.JsonObject;",
                       "import com.google.gson.annotations.Expose;"},
     package |-> project_package_root \o package_name,
     class_name |-> class_name,
     extends |-> external_package \o "RosMessage",
     constants_code |->
         [i \in 1..Len(spec.constants) |->
             [type |-> PYTHON_TO_JAVA_PRIMITIVE_MAPPING[spec.constants[i].value.ty],
              name |-> spec.constants[i].name,
              value |-> spec.constants[i].value.v]],
     fields_code |-> [i \in 1..Len(results) |-> results[i].fields_code],
     type |-> Flat(spec.msg_type),
     args_constructor |->
         IF Len(results) > 0
         THEN <<[args |-> [i \in 1..Len(results) |-> results[i].arg],
                 arg_assignment |->
                     [i \in 1..Len(results) |-> results[i].arg_assignment]]>>
         ELSE <<>>,
     json_constructor |-> [i \in 1..Len(results) |-> results[i].json_constructor],
     getters |-> [i \in 1..Len(results) |-> results[i].getter],
     setters |-> [i \in 1..Len(results) |-> results[i].setter]]

\* lines 434-475: the loop over spec.fields.items()
FieldResults(spec, project_package_root, external_package, bl) ==
    [i \in 1..Len(spec.fields) |->
        FieldCode(project_package_root, external_package, bl,
                  spec.fields[i].name, spec.fields[i].field)]

\* lines 419-421, given the pieces of spec.msg_type.split("/")
NamedParts(spec, project_package_root, package_name, class_name, external_package, bl) ==
    PartsOf(spec, project_package_root, package_name,
            get_class_special_case_package(package_name, class_name),
            external_package,
            FieldResults(spec, project_package_root, external_package, bl))

\* generate_java_code_from_spec up to the import set: everything but the
\* import block
CodeParts(path, spec, external_package, bl) ==
    NamedParts(spec, get_package_root(path),
               Flat(Split(spec.msg_type, "/")[1]), Flat(Split(spec.msg_type, "/")[2]),
               external_package, bl)

\* the import lines the emitter can add, in ascending str order
ImportLines ==
    <<"import com.google.gson.JsonElement;",
      "import com.google.gson.JsonObject;",
      "import com.google.gson.annotations.Expose;",
      "import java.util.ArrayList;",
      "import java.util.Arrays;">>

\* a < b on str, for import lines
StrLess(a, b) ==
    (CHOOSE i \in 1..Len(ImportLines) : ImportLines[i] = a)
        < (CHOOSE i \in 1..Len(ImportLines) : ImportLines[i] = b)

\* sorted(list(imports), reverse=True)
ReverseSortedImports(order) == SortSeq(order, LAMBDA a, b : StrLess(b, a))

\* list(imports) without sorted
UnsortedImports(order) == order

\* sorted(list(imports)), where list(imports) enumerates the set in the order
\* the hash table holds it
SortedImports(order) == SortSeq(order, StrLess)

\* list(imports): every enumeration of the set, one per hash seed
Orders(imports) ==
    {order \in [1..Cardinality(imports) -> imports] :
        \A i, j \in 1..Cardinality(imports) : order[i] = order[j] => i = j}

\* the rest of generate_java_code_from_spec: the import block, the class text
\* and the returned (path, code)
Assemble(parts, order) ==
    [path |-> parts.path,
     code |-> [package |-> parts.package,
               import_code |-> SortedImports(order),
               class_name |-> parts.class_name,
               extends |-> parts.extends,
               constants_code |-> parts.constants_code,
               fields_code |-> parts.fields_code,
               type |-> parts.type,
               args_constructor |-> parts.args_constructor,
               json_constructor |-> parts.json_constructor,
               getters |-> parts.getters,
               setters |-> parts.setters]]

\* main.py: the package name main() passes, and the qualifier
\* generate_from_messages hands to the emitter
MainExternalPackage == "frc.team88.ros"
ExternalRoot == MainExternalPackage \o ".messages."

----------------------------------------------------------------------------
(* main.py: one run of generate_from_messages *)

\* os.path.join(root_path, relative_path)
PathJoin(root, relative) ==
    IF root = <<>> THEN relative
    ELSE IF EndsWith(root, "/") THEN Flat(root) \o relative
    ELSE Flat(root) \o "/" \o relative

\* write_java_file that puts every file into the root directory, under the
\* name of its class
write_java_file_flat(files, root, relative_path, code) ==
    Append(files, [path |-> PathJoin(root, code.class_name \o ".java"), code |-> code])

\* write_java_file on the list of files written so far
write_java_file(files, root, relative_path, code) ==
    Append(files, [path |-> PathJoin(root, relative_path), code |-> code])

\* inputs of a run
RootMessages == Installed \cup {MsgBValue, MsgDSwapped}
RootSeqs == UNION {[1..n -> RootMessages] : n \in 0..MaxRoots}
Blacklists ==
    {{}, {MsgB.type}, {MsgD.type}, {MsgB.type, MsgHeader.type}}
RootPaths ==
    {<<"frc", "/", "team88", "/", "ros", "/", "messages">>, <<"custom", "/">>}

NoSpec == [cls |-> "None"]
NoFold == [spec |-> NoSpec, before |-> <<>>, err |-> ""]
NoCall == [name |-> <<>>, before |-> <<>>, looked |-> <<>>, err |-> ""]

Init ==
    /\ messages \in RootSeqs
    /\ blacklist \in Blacklists
    /\ root_path \in RootPaths
    /\ pc = "build"
    /\ idx = 1
    /\ class_spec = NoSpec
    /\ MSG_CLASS_CACHE = <<>>
    /\ resolve_calls = <<>>
    /\ lookups = <<>>
    /\ unique_objects = <<>>
    /\ written = <<>>
    /\ error = ""
    /\ last_fold = NoFold
    /\ last_call = NoCall
    /\ emitted = {}

\* lines 64-66 inside "try: ... except Exception: pass"
GenerateSpecCatch ==
    /\ pc = "build"
    /\ idx <= Len(messages)
    /\ \E r \in {java_class_spec_generator(
                    JavaClassSpec(messages[idx].type, -1), messages[idx],
                    [cache |-> MSG_CLASS_CACHE, calls |-> resolve_calls,
                     looked |-> lookups, err |-> "", depth |-> 1])} :
           /\ MSG_CLASS_CACHE' = r.st.cache
           /\ resolve_calls' = r.st.calls
           /\ lookups' = r.st.looked
           /\ error' = ""
           /\ class_spec' = r.spec
           /\ pc' = "fold"
    /\ UNCHANGED <<messages, blacklist, root_path, idx, unique_objects, written,
                   last_fold, last_call, emitted>>

\* lines 64-66: class_spec = JavaClassSpec(msg._type); java_class_spec_generator(...)
GenerateSpec ==
    /\ pc = "build"
    /\ idx <= Len(messages)
    /\ \E r \in {java_class_spec_generator(
                    JavaClassSpec(messages[idx].type, -1), messages[idx],
                    [cache |-> MSG_CLASS_CACHE, calls |-> resolve_calls,
                     looked |-> lookups, err |-> "", depth |-> 1])} :
           /\ MSG_CLASS_CACHE' = r.st.cache
           /\ resolve_calls' = r.st.calls
           /\ lookups' = r.st.looked
           /\ error' = r.st.err
           /\ class_spec' = r.spec
           /\ pc' = IF r.st.err # "" THEN "error" ELSE "fold"
    /\ UNCHANGED <<messages, blacklist, root_path, idx, unique_objects, written,
                   last_fold, last_call, emitted>>

\* line 67: filter_unique_objects(unique_objects, class_spec, blacklist)
FilterUnique ==
    /\ pc = "fold"
    /\ \E r \in {filter_unique_objects(unique_objects, class_spec, blacklist)} :
           /\ unique_objects' = r.objs
           /\ last_fold' = [spec |-> class_spec, before |-> unique_objects, err |-> r.err]
           /\ error' = r.err
           /\ pc' = IF r.err # "" THEN "error" ELSE "build"
           /\ idx' = IF r.err # "" THEN idx ELSE idx + 1
    /\ UNCHANGED <<messages, blacklist, root_path, class_spec, MSG_CLASS_CACHE,
                   resolve_calls, lookups, written, last_call, emitted>>

\* the loop over the registry entered after the first message
StartEmitEarly ==
    /\ pc = "build"
    /\ idx > 1
    /\ pc' = "emit"
    /\ idx' = 1
    /\ UNCHANGED <<messages, blacklist, root_path, class_spec, MSG_CLASS_CACHE,
                   resolve_calls, lookups, unique_objects, written, error,
                   last_fold, last_call, emitted>>

\* line 64 exhausted: the loop over messages ends, the loop over the registry starts
StartEmit ==
    /\ pc = "build"
    /\ idx > Len(messages)
    /\ pc' = "emit"
    /\ idx' = 1
    /\ UNCHANGED <<messages, blacklist, root_path, class_spec, MSG_CLASS_CACHE,
                   resolve_calls, lookups, unique_objects, written, error,
                   last_fold, last_call, emitted>>

\* lines 70-75: generate_java_code_from_spec and write_java_file for one entry
EmitWrite ==
    /\ pc = "emit"
    /\ idx <= Len(unique_objects)
    /\ IF EmitError(unique_objects[idx].spec) # ""
       THEN /\ error' = EmitError(unique_objects[idx].spec)
            /\ pc' = "error"
            /\ UNCHANGED <<idx, written>>
       ELSE \E parts \in {CodeParts(root_path, unique_objects[idx].spec,
                                    ExternalRoot, blacklist)} :
              \E order \in Orders(parts.imports) :
                \E out \in {Assemble(parts, order)} :
                  /\ written' = write_java_file(written, root_path, out.path, out.code)
                  /\ idx' = idx + 1
                  /\ UNCHANGED <<error, pc>>
    /\ UNCHANGED <<messages, blacklist, root_path, class_spec, MSG_CLASS_CACHE,
                   resolve_calls, lookups, unique_objects, last_fold, last_call,
                   emitted>>

\* line 77: return unique_objects
Finish ==
    /\ pc = "emit"
    /\ idx > Len(unique_objects)
    /\ pc' = "done"
    /\ UNCHANGED <<messages, blacklist, root_path, idx, class_spec, MSG_CLASS_CACHE,
                   resolve_calls, lookups, unique_objects, written, error,
                   last_fold, last_call, emitted>>

Next == GenerateSpec \/ FilterUnique \/ StartEmit \/ EmitWrite \/ Finish

Spec == Init /\ [][Next]_vars

\* A run over roots that include instances of the self-referring classes,
\* taken to its end: the calls of generate_from_messages follow one another
\* without waiting for anything, so the run always takes its next step.
WalkRoots == {MsgC, MsgBad, MsgBMsg} \cup InstalledCyclic
WalkSeqs == UNION {[1..n -> WalkRoots] : n \in 0..MaxRoots}

WalkInit ==
    /\ messages \in WalkSeqs
    /\ blacklist \in {{}, {MsgLoop.type}}
    /\ root_path = <<"custom", "/">>
    /\ pc = "build"
    /\ idx = 1
    /\ class_spec = NoSpec
    /\ MSG_CLASS_CACHE = <<>>
    /\ resolve_calls = <<>>
    /\ lookups = <<>>
    /\ unique_objects = <<>>
    /\ written = <<>>
    /\ error = ""
    /\ last_fold = NoFold
    /\ last_call = NoCall
    /\ emitted = {}

SpecWalk == WalkInit /\ [][Next]_vars /\ WF_vars(Next)

\* A run over roots whose type names differ in the package, in the class
\* name, or in the prefix only
PathRoots == {MsgHeader, MsgRosHeader, MsgPkgHeader, MsgPkgRosHeader, MsgRosPkgHeader}
PathSeqs == UNION {[1..n -> PathRoots] : n \in 0..MaxRoots}

PathInit ==
    /\ messages \in PathSeqs
    /\ blacklist = {}
    /\ root_path \in RootPaths
    /\ pc = "build"
    /\ idx = 1
    /\ class_spec = NoSpec
    /\ MSG_CLASS_CACHE = <<>>
    /\ resolve_calls = <<>>
    /\ lookups = <<>>
    /\ unique_objects = <<>>
    /\ written = <<>>
    /\ error = ""
    /\ last_fold = NoFold
    /\ last_call = NoCall
    /\ emitted = {}

SpecPaths == PathInit /\ [][Next]_vars

----------------------------------------------------------------------------
(* Direct calls of the three units, on inputs a caller can pass.  Each of    *)
(* these specifications drives one function of generate_spec.py or           *)
(* code_artifacts.py over arbitrary sequences of calls.                      *)

EmptyWalk == [cache |-> <<>>, calls |-> <<>>, looked |-> <<>>, err |-> "", depth |-> 1]

\* the class tree the builder makes of an installed message
BuiltOf(msg) == java_class_spec_generator(JavaClassSpec(msg.type, -1), msg, EmptyWalk).spec

\* a tree with the sub-message of field name replaced by sub
WithSubMsg(spec, name, sub) == add_sub_spec(spec, name, [sub EXCEPT !.size = -1])

FoldPool ==
    {BuiltOf(MsgA), BuiltOf(MsgB), BuiltOf(MsgC), BuiltOf(MsgD), BuiltOf(MsgHeader),
     BuiltOf(MsgE), BuiltOf(MsgDSwapped),
     BuiltOf(MsgBValue), BuiltOf(MsgBKind), BuiltOf(MsgBNames),
     [BuiltOf(MsgBMsg) EXCEPT !.fields = <<[name |-> "v", field |-> JavaTimeSpec]>>],
     WithSubMsg(BuiltOf(MsgA), "b", BuiltOf(MsgBValue)),
     WithSubMsg(BuiltOf(MsgD), "p", BuiltOf(MsgBNames)),
     WithSubMsg(BuiltOf(MsgA), "b", [BuiltOf(MsgB) EXCEPT !.msg_type = TypeName("pkg", "B2")])}

NamePool ==
    {MsgA.type, MsgB.type, MsgHeader.type, TypeName("nopkg", "Missing"),
     TypeName("pkg", "Nope"), <<"time">>, <<"a", "/", "b", "/", "c">>}

EmitPool ==
    {BuiltOf(MsgA), BuiltOf(MsgC), BuiltOf(MsgE), BuiltOf(MsgHeader), BuiltOf(MsgEmpty)}
EmitBlacklists == {{}, {MsgB.type, MsgHeader.type}}

\* the state shared by the three: nothing has run
Idle ==
    /\ messages = <<>>
    /\ pc = "calls"
    /\ idx = 0
    /\ class_spec = NoSpec
    /\ MSG_CLASS_CACHE = <<>>
    /\ resolve_calls = <<>>
    /\ lookups = <<>>
    /\ unique_objects = <<>>
    /\ written = <<>>
    /\ error = ""
    /\ last_fold = NoFold
    /\ last_call = NoCall
    /\ emitted = {}

FoldInit == Idle /\ blacklist \in Blacklists /\ root_path \in {<<"custom", "/">>}

\* filter_unique_objects(unique_objects, node, blacklist) for any node
FoldCall ==
    /\ idx < MaxFolds
    /\ \E node \in FoldPool :
         \E r \in {filter_unique_objects(unique_objects, node, blacklist)} :
           /\ unique_objects' = r.objs
           /\ last_fold' = [spec |-> node, before |-> unique_objects, err |-> r.err]
           /\ error' = r.err
    /\ idx' = idx + 1
    /\ UNCHANGED <<messages, blacklist, root_path, pc, class_spec, MSG_CLASS_CACHE,
                   resolve_calls, lookups, written, last_call, emitted>>

SpecFold == FoldInit /\ [][FoldCall]_vars

CacheInit == Idle /\ blacklist = {} /\ root_path \in {<<"custom", "/">>}

\* get_msg_class(MSG_CLASS_CACHE, name) for any name
ResolveCall ==
    /\ idx < MaxCalls
    /\ \E name \in NamePool :
         \E r \in {get_msg_class(MSG_CLASS_CACHE, name)} :
           /\ MSG_CLASS_CACHE' = r.cache
           /\ resolve_calls' = Append(resolve_calls, name)
           /\ lookups' = lookups \o r.looked
           /\ last_call' = [name |-> name, before |-> MSG_CLASS_CACHE,
                            looked |-> r.looked, err |-> r.err]
           /\ error' = r.err
    /\ idx' = idx + 1
    /\ UNCHANGED <<messages, blacklist, root_path, pc, class_spec, unique_objects,
                   written, last_fold, emitted>>

SpecCache == CacheInit /\ [][ResolveCall]_vars

EmitInit == Idle /\ blacklist = {} /\ root_path \in RootPaths

\* generate_java_code_from_spec(path, spec, ExternalRoot, bl) for any input
EmitCall ==
    /\ idx < MaxEmits
    /\ \E spec \in EmitPool, bl \in EmitBlacklists :
         \E parts \in {CodeParts(root_path, spec, ExternalRoot, bl)} :
           \E order \in Orders(parts.imports) :
             emitted' = emitted \cup
                 {[spec |-> spec, path |-> root_path, external_package |-> ExternalRoot,
                   blacklist |-> bl, out |-> Assemble(parts, order)]}
    /\ idx' = idx + 1
    /\ UNCHANGED <<messages, blacklist, root_path, pc, class_spec, MSG_CLASS_CACHE,
                   resolve_calls, lookups, unique_objects, written, error,
                   last_fold, last_call>>

SpecEmit == EmitInit /\ [][EmitCall]_vars

----------------------------------------------------------------------------
(* The vocabulary of the properties: what the message schemas say, read off  *)
(* the schemas themselves                                                     *)

Schema(T) == CHOOSE m \in Installed : m.type = T
SlotsOf(m) == {m.slots[i] : i \in 1..Len(m.slots)}

\* the list shape a tag of the grammar <base>, <base>[], <base>[N] declares:
\* -1 for Scalar, 0 for VariableList, N for FixedList(N)
TagSize(tag) ==
    IF Len(tag) >= 3 /\ tag[Len(tag)] = "]" /\ tag[Len(tag) - 1] = "[" THEN 0
    ELSE IF Len(tag) >= 4 /\ tag[Len(tag)] = "]" /\ tag[Len(tag) - 2] = "["
    THEN Numeral[tag[Len(tag) - 1]]
    ELSE -1

\* the tag without its bracket suffix
TagBase(tag) ==
    IF TagSize(tag) = -1 THEN tag
    ELSE IF TagSize(tag) = 0 THEN SubSeq(tag, 1, Len(tag) - 2)
    ELSE SubSeq(tag, 1, Len(tag) - 3)

IsTemporalTag(tag) == TagBase(tag) \in {<<"time">>, <<"duration">>}
IsPrimitiveTag(tag) == Flat(TagBase(tag)) \in RosPrimitive /\ ~ IsTemporalTag(tag)
IsMessageTag(tag) == Flat(TagBase(tag)) \notin RosPrimitive

\* every class node of a built tree, the tree's root included
RECURSIVE NodesOf(_)
NodesOf(spec) ==
    {spec} \cup UNION {NodesOf(spec.fields[i].field) :
                          i \in {j \in 1..Len(spec.fields) : IsClassSpec(spec.fields[j].field)}}

\* the nodes the builder made from an installed schema
BuiltNodes(spec) == {n \in NodesOf(spec) : n.cls = "JavaClassSpec"}

\* the entry the builder made for a slot of the schema of node n
EntryOf(n, slot) == DictGet(n.fields, slot.name).field

\* a scalar 32-bit integer entry with default 0
IsIntZero(field) ==
    field = [cls |-> "JavaMessageField", value |-> PyVal("int", "0"),
             msg_type |-> "int", size |-> -1]

\* a composite entry with exactly the two fields secs and nsecs
IsSecsNsecs(field) ==
    /\ IsClassSpec(field)
    /\ Len(field.fields) = 2
    /\ field.fields[1].name = "secs" /\ IsIntZero(field.fields[1].field)
    /\ field.fields[2].name = "nsecs" /\ IsIntZero(field.fields[2].field)

----------------------------------------------------------------------------
\* C5: in build, every field whose base type is time or duration yields a
\* composite entry with exactly the fields secs and nsecs, each a scalar
\* 32-bit integer with default 0, and get_msg_class is never called for it.
C5_TemporalNormalized ==
    /\ \A i \in 1..Len(resolve_calls) :
          resolve_calls[i] \notin {<<"time">>, <<"duration">>}
    /\ pc = "fold" =>
          \A n \in BuiltNodes(class_spec) :
             \A slot \in SlotsOf(Schema(n.msg_type)) :
                IsTemporalTag(slot.tag) => IsSecsNsecs(EntryOf(n, slot))

\* a tree with scalar and list-tagged time and duration fields has been built
C5_Witness ==
    /\ pc = "fold"
    /\ class_spec.msg_type = MsgE.type
    /\ \E slot \in SlotsOf(MsgE) : slot.tag = <<"time">>
                                   \/ slot.tag = VarList(<<"time">>)

\* C6: in build, the list shape of a temporal field is the shape its tag
\* declares: VariableList for time[] and duration[], FixedList(N) for time[N]
\* and duration[N], Scalar only for an untagged time or duration.
C6_TemporalShapePreserved ==
    pc = "fold" =>
       \A n \in BuiltNodes(class_spec) :
          \A slot \in SlotsOf(Schema(n.msg_type)) :
             IsTemporalTag(slot.tag) => EntryOf(n, slot).size = TagSize(slot.tag)

\* how emit rendered field j of a file: a bare value, a growable collection,
\* or an array of size elements
Rendered(code, j, size) ==
    LET fields_code == code.fields_code[j]
        arg_assignment == code.args_constructor[1].arg_assignment[j]
    IN  IF size = -1
        THEN arg_assignment.kind = "assign" /\ Len(fields_code.init) = 1
        ELSE IF size = 0
        THEN arg_assignment.kind = "asList" /\ fields_code.init = <<"new ArrayList<>()">>
        ELSE /\ arg_assignment.kind = "copy"
             /\ arg_assignment.size = size
             /\ Len(fields_code.init) = size + 1

\* the build half of C7 for the slots that satisfy want
ShapeAndBase(want(_)) ==
    pc = "fold" =>
       \A n \in BuiltNodes(class_spec) :
          \A slot \in {s \in SlotsOf(Schema(n.msg_type)) : want(s.tag)} :
             /\ EntryOf(n, slot).size = TagSize(slot.tag)
             /\ IsPrimitiveTag(slot.tag) =>
                   EntryOf(n, slot).msg_type
                       = ROS_TO_JAVA_PRIMITIVE_MAPPING[Flat(TagBase(slot.tag))]
             /\ IsMessageTag(slot.tag) =>
                   /\ EntryOf(n, slot).msg_type = TagBase(slot.tag)
                   /\ \E i \in 1..Len(resolve_calls) : resolve_calls[i] = TagBase(slot.tag)

\* the emit half of C7 for the slots that satisfy want
ShapeRendered(want(_)) ==
    \A i \in 1..Len(written) :
       \A j \in 1..Len(unique_objects[i].spec.fields) :
          LET slot == CHOOSE t \in SlotsOf(Schema(unique_objects[i].name)) :
                         t.name = unique_objects[i].spec.fields[j].name
          IN  want(slot.tag) => Rendered(written[i].code, j, TagSize(slot.tag))

AnyTag(tag) == TRUE

\* C7: for every tag <base>, <base>[], <base>[N], build classifies the field
\* as Scalar, VariableList or FixedList(N) by the bracket suffix, looks up and
\* resolves the tag without that suffix, and emit renders a bare value, a
\* growable collection or an N-element array, primitive or composite alike.
C7_ShapeFidelity == ShapeAndBase(AnyTag) /\ ShapeRendered(AnyTag)

NonTemporalTag(tag) == ~ IsTemporalTag(tag)

\* what is left of C7 when the temporal fields are set aside
NonTemporalShapeFidelity == ShapeAndBase(NonTemporalTag) /\ ShapeRendered(NonTemporalTag)

----------------------------------------------------------------------------
(* Which types a run has to write, read off the schemas *)

IsInstalledType(T) == \E m \in Installed : m.type = T

\* the type names of the message-typed slots of schema T
MessageTypesOf(T) ==
    IF IsInstalledType(T)
    THEN {TagBase(s.tag) : s \in {t \in SlotsOf(Schema(T)) : IsMessageTag(t.tag)}}
    ELSE {}

\* the type names of all composite entries of schema T: the message-typed
\* slots, and Time and Duration for the temporal slots
CompositeTypesOf(T) ==
    IF IsInstalledType(T)
    THEN MessageTypesOf(T)
         \cup {<<"Time">> : s \in {t \in SlotsOf(Schema(T)) : TagBase(t.tag) = <<"time">>}}
         \cup {<<"Duration">> :
                  s \in {t \in SlotsOf(Schema(T)) : TagBase(t.tag) = <<"duration">>}}
    ELSE {}

\* the types reachable from R through chains of nested types none of which is
\* in bl; temporal tells whether Time and Duration count as nested types
NestedOf(T, temporal) == IF temporal THEN CompositeTypesOf(T) ELSE MessageTypesOf(T)

RECURSIVE Closure(_, _, _)
Closure(R, bl, temporal) ==
    LET next == R \cup (UNION {NestedOf(T, temporal) : T \in R} \ bl)
    IN  IF next = R THEN R ELSE Closure(next, bl, temporal)

Roots == {messages[i].type : i \in 1..Len(messages)}

\* the roots (by position) whose schema contains T as a nested type at any depth
ReferencedBy(T, temporal) ==
    {i \in 1..Len(messages) :
        T \in Closure({messages[i].type}, {}, temporal) \ {messages[i].type}}

EntriesFor(T) == {k \in 1..Len(unique_objects) : unique_objects[k].name = T}
FilesFor(T) == {k \in 1..Len(written) : written[k].code.type = Flat(T)}

Completed == pc = "done" /\ error = ""

\* the directory of the output root path, and the file of a message type in it
RootDir == IF root_path = <<"custom", "/">> THEN "custom/" ELSE "frc/team88/ros/messages/"
FilePath(T) ==
    RootDir \o T[1] \o "/" \o (IF T[1] = "std_msgs" THEN "Ros" \o T[3] ELSE T[3])
        \o ".java"

----------------------------------------------------------------------------
----------------------------------------------------------------------------
\* the namespace computed from the output root path
LocalNamespace ==
    IF root_path = <<"custom", "/">> THEN "custom." ELSE "frc.team88.ros.messages."

\* the class a composite field refers to, within its namespace
ClassRef(msg_type) ==
    IF Len(msg_type) = 3
    THEN msg_type[1] \o "." \o (IF msg_type[1] = "std_msgs" THEN "Ros" \o msg_type[3]
                                ELSE msg_type[3])
    ELSE Flat(msg_type)

\* the declared type of a field of the given list shape that refers to ref
ShapedType(size, ref) ==
    IF size = -1 THEN ref
    ELSE IF size = 0 THEN "ArrayList<" \o ref \o ">"
    ELSE ref \o "[]"

\* C4: in emit, for every composite field, in each of the three list shapes,
\* the type reference is qualified with the external qualifier if the nested
\* type name is in the exclusion set and with the namespace computed from the
\* output root path if it is not.
C4_QualifierByExclusion ==
    \A i \in 1..Len(written) :
       \A j \in 1..Len(unique_objects[i].spec.fields) :
          LET field == unique_objects[i].spec.fields[j].field
              qualifier == IF field.msg_type \in blacklist THEN ExternalRoot
                           ELSE LocalNamespace
          IN  IsClassSpec(field) =>
                 /\ written[i].code.fields_code[j].type
                       = ShapedType(field.size, qualifier \o ClassRef(field.msg_type))
                 /\ written[i].code.getters[j].type
                       = ShapedType(field.size, qualifier \o ClassRef(field.msg_type))

\* pkg/E was written under custom/ with pkg/B and std_msgs/Header excluded:
\* a scalar and a variable-list field of excluded types
C4_Witness ==
    /\ root_path = <<"custom", "/">>
    /\ blacklist = {MsgB.type, MsgHeader.type}
    /\ \E i \in 1..Len(written) : written[i].code.type = Flat(MsgE.type)

----------------------------------------------------------------------------
(* The fold, called directly *)

FieldNames(spec) == {spec.fields[i].name : i \in 1..Len(spec.fields)}

\* what the registry compares of an entry: whether it is a primitive or a
\* composite, and for a primitive its kind
KindOf(field) ==
    IF field.cls = "JavaMessageField" THEN <<"Primitive", field.msg_type>>
    ELSE <<"Composite">>

\* the fields of two nodes differ: another set of names, another kind for a
\* name, or another default for a primitive field
FieldsDiffer(stored, node) ==
    \/ FieldNames(stored) # FieldNames(node)
    \/ \E name \in FieldNames(stored) \cap FieldNames(node) :
          LET a == DictGet(stored.fields, name).field
              b == DictGet(node.fields, name).field
          IN  \/ KindOf(a) # KindOf(b)
              \/ /\ a.cls = "JavaMessageField"
                 /\ b.cls = "JavaMessageField"
                 /\ a.value # b.value

Folded == last_fold.spec # NoSpec

\* the nodes a fold of node is called on and does not skip as excluded: node
\* and the message-typed fields below it, down to the excluded ones
RECURSIVE FoldedNodes(_, _)
FoldedNodes(node, bl) ==
    IF node.msg_type \in bl THEN {}
    ELSE {node}
         \cup UNION {FoldedNodes(node.fields[i].field, bl) :
                        i \in {j \in 1..Len(node.fields) :
                                  node.fields[j].field.cls = "JavaClassSpec"}}

\* n is stored in the registry with other fields
Inconsistent(registry, n) ==
    /\ n.msg_type \in DictKeys(registry)
    /\ FieldsDiffer(DictGet(registry, n.msg_type).spec, n)

\* the last fold met, at its root or below it, a non-excluded node whose type
\* name was stored with other fields
FoldedInconsistent ==
    /\ Folded
    /\ \E n \in FoldedNodes(last_fold.spec, blacklist) :
          Inconsistent(last_fold.before, n)

\* C2: over any sequence of folds, folding a non-excluded node whose type name
\* is stored and whose fields differ from the stored node's (the set of field
\* names, the kind of a field, the default of a primitive field) fails with
\* the assertion error instead of returning normally.
C2_InconsistentFoldFails ==
    FoldedInconsistent => last_fold.err = "AssertionError" /\ error = "AssertionError"

\* pkg/B was stored with v = 0.0 and then folded with v = 1.0
C2_Witness ==
    /\ FoldedInconsistent
    /\ last_fold.spec = BuiltOf(MsgBValue)
    /\ MsgB.type \in DictKeys(last_fold.before)
    /\ DictGet(last_fold.before, MsgB.type).spec = BuiltOf(MsgB)

\* the message types a fold of node stores: node and what is reached from it
\* through message-typed fields of non-excluded types
RECURSIVE FoldReach(_, _)
FoldReach(node, bl) ==
    IF node.msg_type \in bl THEN {}
    ELSE {node.msg_type}
         \cup UNION {FoldReach(node.fields[i].field, bl) :
                        i \in {j \in 1..Len(node.fields) :
                                  node.fields[j].field.cls = "JavaClassSpec"}}

\* C3: after any sequence of folds with a fixed exclusion set no registry key
\* is in the exclusion set: the fold of an excluded node returns at once,
\* inserts nothing and recurses into nothing, as a root and as a nested field
\* of a non-excluded node.
C3_ExcludedNeverStored ==
    /\ DictKeys(unique_objects) \cap blacklist = {}
    /\ (Folded /\ last_fold.spec.msg_type \in blacklist) =>
          unique_objects = last_fold.before /\ last_fold.err = ""
    /\ (Folded /\ last_fold.err = "") =>
          DictKeys(unique_objects)
              = DictKeys(last_fold.before) \cup FoldReach(last_fold.spec, blacklist)

\* pkg/C was folded with pkg/D excluded: pkg/D is nested in pkg/C and nests
\* pkg/B, and neither was stored
C3_Witness ==
    /\ Folded
    /\ last_fold.spec = BuiltOf(MsgC)
    /\ last_fold.before = <<>>
    /\ blacklist = {MsgD.type}
    /\ DictKeys(unique_objects) = {MsgC.type}

----------------------------------------------------------------------------
(* The resolver, called directly *)

\* how often the external lookup ran for name
LookupCount(name) == Cardinality({i \in 1..Len(lookups) : lookups[i] = name})

Called == last_call.name # <<>>

\* C8 as stated: over any sequence of calls on one cache the external lookup
\* runs at most once per type name.
C8_LookupAtMostOnce == \A name \in NamePool : LookupCount(name) <= 1

\* C8: over any sequence of calls on one cache the external lookup succeeds at
\* most once per type name: the call that finds the name performs the lookup
\* and stores the descriptor, every later call for that name returns the
\* stored descriptor without a lookup, and a stored entry is never removed or
\* replaced; a lookup that fails stores nothing and is repeated by the next
\* call for that name.
C8_StoredLookedUpOnce ==
    /\ \A name \in DOMAIN MSG_CLASS_CACHE : LookupCount(name) = 1
    /\ \A name \in NamePool \ DOMAIN MSG_CLASS_CACHE :
          LookupCount(name) <= Cardinality({i \in 1..Len(resolve_calls) :
                                               resolve_calls[i] = name})
    /\ Called =>
          /\ \A name \in DOMAIN last_call.before :
                /\ name \in DOMAIN MSG_CLASS_CACHE
                /\ MSG_CLASS_CACHE[name] = last_call.before[name]
          /\ last_call.name \in DOMAIN last_call.before =>
                /\ last_call.looked = <<>>
                /\ last_call.err = ""
                /\ MSG_CLASS_CACHE = last_call.before
          /\ (last_call.name \notin DOMAIN last_call.before /\ last_call.err = "") =>
                /\ last_call.looked = <<last_call.name>>
                /\ MSG_CLASS_CACHE[last_call.name]
                      = <<last_call.name[1], last_call.name[3]>>
          /\ last_call.err # "" => MSG_CLASS_CACHE = last_call.before

\* pkg/A was resolved, then pkg/B, then pkg/A again
C8_Witness ==
    /\ resolve_calls = <<MsgA.type, MsgB.type, MsgA.type>>
    /\ lookups = <<MsgA.type, MsgB.type>>
    /\ last_call.name \in DOMAIN last_call.before

----------------------------------------------------------------------------
(* The emitter, called directly *)

\* C9: two calls of generate_java_code_from_spec with the same node, output
\* root path, external qualifier and exclusion set return the same path and
\* the same text, whatever was emitted before and in whatever order the
\* import set is enumerated.
C9_EmitDeterministic ==
    \A a, b \in emitted :
       (/\ a.spec = b.spec
        /\ a.path = b.path
        /\ a.external_package = b.external_package
        /\ a.blacklist = b.blacklist) => a.out = b.out

\* pkg/E, whose file has five imports, was emitted twice after another node
C9_Witness ==
    /\ idx = 3
    /\ Cardinality(emitted) = 2
    /\ \E a \in emitted : a.spec = BuiltOf(MsgE) /\ Len(a.out.code.import_code) = 5

----------------------------------------------------------------------------
(* The order of a run *)

\* every root has been built and folded: the last root is the tree built and
\* folded last, and every root that is not excluded is in the registry
AllRootsFolded ==
    /\ \A i \in 1..Len(messages) :
          messages[i].type \notin blacklist => messages[i].type \in DictKeys(unique_objects)
    /\ Len(messages) > 0 =>
          /\ class_spec # NoSpec
          /\ class_spec.msg_type = messages[Len(messages)].type
          /\ last_fold.spec = class_spec
          /\ last_fold.err = ""

\* C11: no file is written before every root has been built and folded; when
\* building or folding a root fails, the run ends with the error and has
\* written no file.
C11_EmitAfterAllRoots ==
    [][/\ written' # written => (AllRootsFolded /\ error = "")
       /\ pc \in {"build", "fold"} => written = <<>>
       /\ (pc \in {"build", "fold"} /\ pc' = "error") =>
             (error' # "" /\ written' = <<>>)
       /\ pc # "error"]_vars

\* the second root was folded with other fields than the stored node of its
\* type: the run ended when a node was stored and nothing was written
C11_Witness ==
    /\ pc = "error"
    /\ error = "AssertionError"
    /\ Len(messages) = 2
    /\ Len(unique_objects) > 0
    /\ written = <<>>

----------------------------------------------------------------------------
(* The emitted declarations *)

\* the Java literal denotes the Python value
Denotes(literal, value) ==
    \/ value.ty = "bool" /\ literal = (IF value.v = "True" THEN "true" ELSE "false")
    \/ value.ty = "int" /\ (literal = value.v \/ (value.v = "0" /\ literal = "'\\0'"))
    \/ value.ty = "float" /\ (literal = value.v \/ literal = value.v \o "f")
    \/ value.ty = "str" /\ literal = "\"" \o value.v \o "\""

\* the fields of the node written as file i that satisfy want
FieldsWhere(i, want(_)) ==
    {j \in 1..Len(unique_objects[i].spec.fields) :
        want(unique_objects[i].spec.fields[j].field)}

IsPrimitiveScalar(field) == field.cls = "JavaMessageField" /\ field.size = -1

\* C12: for a Primitive Scalar field the emitted declaration initializes the
\* field with the default its entry carries, the value of the field in the
\* descriptor that build recorded.
C12_ScalarDefaultIsEntryValue ==
    \A i \in 1..Len(written) :
       \A j \in FieldsWhere(i, IsPrimitiveScalar) :
          /\ Len(written[i].code.fields_code[j].init) = 1
          /\ Denotes(written[i].code.fields_code[j].init[1],
                     unique_objects[i].spec.fields[j].field.value)

\* what is left of C12 when every root is a default-constructed instance
DefaultRootsScalarDefault ==
    (\A i \in 1..Len(messages) : messages[i] \in Installed)
        => C12_ScalarDefaultIsEntryValue

\* the Python value of the Java default of a primitive kind
ZeroOf(kind) ==
    IF kind = "boolean" THEN PyVal("bool", "False")
    ELSE IF kind \in {"float", "double"} THEN PyVal("float", "0.0")
    ELSE IF kind = "java.lang.String" THEN PyVal("str", "")
    ELSE PyVal("int", "0")

\* the qualified class a composite field refers to
QualifiedRef(field) ==
    (IF field.msg_type \in blacklist THEN ExternalRoot ELSE LocalNamespace)
        \o ClassRef(field.msg_type)

IsFixedList(field) == field.size > 0

\* C13: for a FixedList(N) field, primitive or composite, the declaration
\* initializes the array with exactly N elements, each the primitive default
\* of the element kind or a default-constructed instance of the nested type,
\* and the full-argument constructor copies the indices 0..N-1.
C13_FixedListInitAndCopy ==
    \A i \in 1..Len(written) :
       \A j \in FieldsWhere(i, IsFixedList) :
          LET field == unique_objects[i].spec.fields[j].field
              init == written[i].code.fields_code[j].init
              copy == written[i].code.args_constructor[1].arg_assignment[j]
          IN  /\ Len(init) = field.size + 1
              /\ \A k \in 2..Len(init) :
                    IF field.cls = "JavaMessageField"
                    THEN Denotes(init[k], ZeroOf(field.msg_type))
                    ELSE init[k] = "new " \o QualifiedRef(field) \o "()"
              /\ copy.kind = "copy"
              /\ copy.name = unique_objects[i].spec.fields[j].name
              /\ copy.size = field.size

\* pkg/C, with items: pkg/D[2], and pkg/E, with arr: int32[3], were written
C13_Witness ==
    /\ \E i \in 1..Len(written) :
          /\ written[i].code.type = Flat(MsgC.type)
          /\ FieldsWhere(i, IsFixedList) # {}
    /\ \E i \in 1..Len(written) :
          /\ written[i].code.type = Flat(MsgE.type)
          /\ FieldsWhere(i, IsFixedList) # {}

\* C14: the JSON-read code emitted for a FixedList(N) field assigns the
\* elements of the JSON array by position and fails whenever the length of
\* the JSON array differs from N, longer or shorter.
C14_JsonReadChecksLength ==
    \A i \in 1..Len(written) :
       \A j \in FieldsWhere(i, IsFixedList) :
          LET N == unique_objects[i].spec.fields[j].field.size
              read == written[i].code.json_constructor[j]
          IN  \A json_len \in 0..MaxJsonLen :
                 /\ json_len = N =>
                       /\ ExecJsonRead(read, N, json_len) = ""
                       /\ AssignedByJsonRead(read, N, json_len) = 0..(N - 1)
                 /\ json_len # N => ExecJsonRead(read, N, json_len) # ""

\* what is left of C14 for an array that is not shorter than N
JsonReadRejectsLonger ==
    \A i \in 1..Len(written) :
       \A j \in FieldsWhere(i, IsFixedList) :
          LET N == unique_objects[i].spec.fields[j].field.size
              read == written[i].code.json_constructor[j]
          IN  \A json_len \in N..MaxJsonLen :
                 /\ json_len = N =>
                       /\ ExecJsonRead(read, N, json_len) = ""
                       /\ AssignedByJsonRead(read, N, json_len) = 0..(N - 1)
                 /\ json_len > N => ExecJsonRead(read, N, json_len) # ""

----------------------------------------------------------------------------
\* C15: the file has a full-argument constructor if and only if the node has
\* at least one field; for a node without fields only the no-argument and the
\* JSON-object constructor are emitted, so no second no-argument constructor.
C15_ArgsConstructorIffFields ==
    \A a \in emitted :
       /\ Len(a.out.code.args_constructor) = (IF Len(a.spec.fields) > 0 THEN 1 ELSE 0)
       /\ \A k \in 1..Len(a.out.code.args_constructor) :
             /\ Len(a.out.code.args_constructor[k].args) = Len(a.spec.fields)
             /\ Len(a.out.code.args_constructor[k].args) > 0

\* a node without fields and a node with fields were emitted
C15_Witness ==
    /\ \E a \in emitted : a.spec.fields = <<>>
    /\ \E a \in emitted : Len(a.spec.fields) > 0

----------------------------------------------------------------------------
\* the class name of a message type: the bare name, with the prefix Ros for
\* the namespace std_msgs
ClassNameOf(T) == IF T[1] = "std_msgs" THEN "Ros" \o T[3] ELSE T[3]

\* the composite fields, over all files written, that refer to a message type
MessageRefs ==
    {<<k, j>> \in (1..Len(written)) \X (1..8) :
        /\ j <= Len(unique_objects[k].spec.fields)
        /\ IsClassSpec(unique_objects[k].spec.fields[j].field)
        /\ Len(unique_objects[k].spec.fields[j].field.msg_type) = 3}

\* C16: the class name of a node is its bare type name, with the fixed prefix
\* for std_msgs; the same name is used in the output path, in the class and
\* constructor declarations, and in every reference another emitted class
\* makes to the type through a composite field.
C16_ClassNameEverywhere ==
    /\ \A i \in 1..Len(written) :
          LET T == unique_objects[i].name
          IN  /\ written[i].code.class_name = ClassNameOf(T)
              /\ written[i].path = RootDir \o T[1] \o "/" \o ClassNameOf(T) \o ".java"
              /\ \A r \in MessageRefs :
                    unique_objects[r[1]].spec.fields[r[2]].field.msg_type = T =>
                       written[r[1]].code.fields_code[r[2]].type
                          = ShapedType(unique_objects[r[1]].spec.fields[r[2]].field.size,
                                       LocalNamespace \o T[1] \o "."
                                           \o written[i].code.class_name)
    /\ \A r \in MessageRefs :
          LET field == unique_objects[r[1]].spec.fields[r[2]].field
          IN  written[r[1]].code.fields_code[r[2]].type
                 = ShapedType(field.size,
                              (IF field.msg_type \in blacklist THEN ExternalRoot
                               ELSE LocalNamespace)
                                  \o field.msg_type[1] \o "." \o ClassNameOf(field.msg_type))

\* pkg/E and the std_msgs/Header it refers to were both written
C16_Witness ==
    /\ Completed
    /\ \E i \in 1..Len(written) : unique_objects[i].name = MsgHeader.type
    /\ \E r \in MessageRefs :
          /\ unique_objects[r[1]].name = MsgE.type
          /\ unique_objects[r[1]].spec.fields[r[2]].field.msg_type = MsgHeader.type

----------------------------------------------------------------------------
\* C17: once a type name is in the registry its stored node is never replaced
\* and never changed: a later fold of a node of that type name leaves the
\* entry as it is, and emit leaves the node it renders, the nested nodes and
\* the registry as they are.
C17_RegistryEntriesFrozen ==
    [][/\ \A k \in 1..Len(unique_objects) :
             /\ k <= Len(unique_objects')
             /\ unique_objects'[k] = unique_objects[k]
       /\ pc = "emit" => (unique_objects' = unique_objects /\ class_spec' = class_spec)]_vars

\* roots pkg/A and pkg/E: pkg/B was stored as the scalar field of pkg/A, then
\* folded again as the node of the list field bs of pkg/E, and files were
\* written
C17_Witness ==
    /\ Completed
    /\ Len(messages) = 2
    /\ messages[1] = MsgA /\ messages[2] = MsgE
    /\ MsgB.type \in DictKeys(unique_objects)
    /\ DictGet(unique_objects, MsgB.type).spec.size = -1
    /\ DictGet(class_spec.fields, "bs").field.size = 0
    /\ Len(written) = Len(unique_objects)

----------------------------------------------------------------------------
\* the names of a sequence of named items, in order
NamesOf(items) == [j \in 1..Len(items) |-> items[j].name]

\* two nodes hold the same entries under the same names, in whatever order
SameEntriesAnyOrder(a, b) ==
    /\ FieldNames(a) = FieldNames(b)
    /\ Len(a.fields) = Len(b.fields)
    /\ \A name \in FieldNames(a) :
          DictGet(a.fields, name).field = DictGet(b.fields, name).field

\* C18: the fields of a node are in the descriptor's declared order, and the
\* declarations, the full-argument constructor's parameters and assignments,
\* the JSON-read statements, the getters and the setters list them in that
\* order; the equality of two nodes does not depend on the order.
C18_DeclaredOrderKept ==
    /\ pc = "fold" =>
          /\ NamesOf(class_spec.fields) = NamesOf(messages[idx].slots)
          /\ \A n \in BuiltNodes(class_spec) \ {class_spec} :
                NamesOf(n.fields) = NamesOf(Schema(n.msg_type).slots)
    /\ \A i \in 1..Len(written) :
          LET order == NamesOf(unique_objects[i].spec.fields)
              code == written[i].code
          IN  /\ NamesOf(code.fields_code) = order
              /\ NamesOf(code.json_constructor) = order
              /\ NamesOf(code.getters) = order
              /\ NamesOf(code.setters) = order
              /\ \A k \in 1..Len(code.args_constructor) :
                    /\ NamesOf(code.args_constructor[k].args) = order
                    /\ NamesOf(code.args_constructor[k].arg_assignment) = order
    /\ (/\ Folded
        /\ last_fold.spec.msg_type \in DictKeys(last_fold.before)
        /\ SameEntriesAnyOrder(DictGet(last_fold.before, last_fold.spec.msg_type).spec,
                               last_fold.spec))
          => last_fold.err = ""

\* pkg/D was folded with slots n, p and then with slots p, n, and both
\* files, for pkg/D and pkg/B, were written
C18_Witness ==
    /\ Completed
    /\ Len(messages) = 2
    /\ messages[1] = MsgD /\ messages[2] = MsgDSwapped
    /\ MsgD.type \in DictKeys(last_fold.before)
    /\ NamesOf(last_fold.spec.fields) = <<"p", "n">>
    /\ NamesOf(DictGet(last_fold.before, MsgD.type).spec.fields) = <<"n", "p">>
    /\ Len(written) = 2

----------------------------------------------------------------------------
HasListField(spec) == \E j \in 1..Len(spec.fields) : spec.fields[j].field.size >= 0
HasVariableListField(spec) == \E j \in 1..Len(spec.fields) : spec.fields[j].field.size = 0

\* C19: the import block of every emitted file is strictly ascending and
\* minimal: the JsonObject and Expose imports always, the JsonElement import
\* exactly when the node has a list field, the ArrayList and Arrays imports
\* exactly when it has a variable-list field.
C19_ImportsSortedMinimal ==
    \A a \in emitted :
       a.out.code.import_code
          = (IF HasListField(a.spec)
             THEN <<"import com.google.gson.JsonElement;">> ELSE <<>>)
            \o <<"import com.google.gson.JsonObject;",
                 "import com.google.gson.annotations.Expose;">>
            \o (IF HasVariableListField(a.spec)
                THEN <<"import java.util.ArrayList;", "import java.util.Arrays;">>
                ELSE <<>>)

\* a node with a variable-list field, a node with fixed-list fields only and
\* a node without list fields were emitted
C19_Witness ==
    /\ \E a \in emitted : HasVariableListField(a.spec)
    /\ \E a \in emitted : HasListField(a.spec) /\ ~ HasVariableListField(a.spec)
    /\ \E a \in emitted : ~ HasListField(a.spec)

----------------------------------------------------------------------------
\* the constants a message class declares, in declared order
DeclaredConstants(m) ==
    SelectSeq(m.class_vars,
              LAMBDA a : /\ ~ a.private
                         /\ ~ a.callable
                         /\ a.value.ty \in {"bool", "int", "float", "str"})

\* the Java type of a constant of a Python value type
ConstantType(ty) ==
    IF ty = "bool" THEN "boolean"
    ELSE IF ty = "int" THEN "int"
    ELSE IF ty = "float" THEN "double"
    ELSE "java.lang.String"

\* the constants of every built node are the declared ones, in declared order
ConstantsBuilt ==
    pc = "fold" =>
       \A n \in BuiltNodes(class_spec) :
          /\ NamesOf(n.constants) = NamesOf(DeclaredConstants(Schema(n.msg_type)))
          /\ \A k \in 1..Len(n.constants) :
                n.constants[k].value = DeclaredConstants(Schema(n.msg_type))[k].value

\* every constant, of the value types in tys, is rendered in declared order
\* with the type of its value type and a literal of its value
ConstantsRendered(tys) ==
    \A i \in 1..Len(written) :
       LET declared == DeclaredConstants(Schema(unique_objects[i].name))
           code == written[i].code.constants_code
       IN  /\ NamesOf(code) = NamesOf(declared)
           /\ \A k \in 1..Len(code) :
                 declared[k].value.ty \in tys =>
                    /\ code[k].type = ConstantType(declared[k].value.ty)
                    /\ Denotes(code[k].value, declared[k].value)

\* C20: every message-level constant is appended to the node in declared
\* order, and emit renders each, in that order, as one public static
\* declaration typed by the constant's value type (boolean, integer, float or
\* text) whose literal is the constant's value.
C20_ConstantsRendered ==
    ConstantsBuilt /\ ConstantsRendered({"bool", "int", "float", "str"})

\* what is left of C20 for the integer and float constants
NumericConstantsRendered == ConstantsBuilt /\ ConstantsRendered({"int", "float"})

----------------------------------------------------------------------------
(* The graph of message descriptors: the descriptor a caller hands over or   *)
(* the resolver returns, and the descriptors its message-tagged slots name   *)

\* the descriptor the resolver returns for type name T, if any
Resolves(T) == \E m \in Installed \cup InstalledCyclic : m.type = T
DescriptorOf(T) == CHOOSE m \in Installed \cup InstalledCyclic : m.type = T

\* the descriptors of the message-tagged slots of descriptor m
NestedDescriptors(m) ==
    {DescriptorOf(TagBase(s.tag)) :
        s \in {t \in SlotsOf(m) : IsMessageTag(t.tag) /\ Resolves(TagBase(t.tag))}}

\* the descriptors reachable from those of S, S included
RECURSIVE ReachableFrom(_)
ReachableFrom(S) ==
    LET next == S \cup UNION {NestedDescriptors(m) : m \in S}
    IN  IF next = S THEN S ELSE ReachableFrom(next)

\* m contains itself, directly or indirectly
ContainsItself(m) == m \in ReachableFrom(NestedDescriptors(m))

\* the type graph reachable from root has a cycle
ReachesCycle(root) == \E m \in ReachableFrom({root}) : ContainsItself(m)

\* C21: fold terminates on every class tree it is given, and build terminates
\* on every root; build of a root whose reachable type graph has a cycle never
\* returns a node, the run ends in an error at that root and writes nothing,
\* and the recursion limit is hit by no root whose type graph is acyclic.
C21_WalkTerminates ==
    /\ [][(pc = "build" /\ pc' \in {"fold", "error"}) =>
             /\ ReachesCycle(messages[idx]) => (pc' = "error" /\ error' # "")
             /\ error' = "RecursionError" => ReachesCycle(messages[idx])]_vars
    /\ []((\E i \in 1..Len(messages) : ReachesCycle(messages[i])) =>
             (written = <<>> /\ pc # "done"))
    /\ (pc = "fold") ~> (pc \in {"build", "error"})
    /\ <>(pc \in {"done", "error"})

\* the second root is of a class that contains itself through a second class
\* and a list: its build ran into the recursion limit after the first root,
\* whose graph is acyclic, was built and folded
C21_Witness ==
    /\ pc = "error" /\ error = "RecursionError"
    /\ idx = 2 /\ Len(messages) = 2
    /\ messages[1] = MsgC /\ messages[2] = MsgPing
    /\ ~ ReachesCycle(messages[1]) /\ ReachesCycle(messages[2])
    /\ Len(unique_objects) = 3
    /\ written = <<>>

----------------------------------------------------------------------------
\* the (path, code) emit returns for a node, under the run's output root path
\* and exclusion set
\* and one enumeration of the import set, the text being the same for all
EmitWith(parts) ==
    Assemble(parts, SelectSeq(ImportLines, LAMBDA line : line \in parts.imports))
EmitOf(node) == EmitWith(CodeParts(root_path, node, ExternalRoot, blacklist))

\* the last fold returned normally: every node it was called on and did not
\* skip was stored or passed the assertion against the stored node
FoldAccepted == Folded /\ last_fold.err = ""
StoredFor(n) == DictGet(unique_objects, n.msg_type).spec

\* what emit reads of a node and the equality of two nodes does not compare:
\* the order of the fields, their list shapes, the type names of the
\* composite fields, and the constants
SameLayout(a, b) ==
    /\ NamesOf(a.fields) = NamesOf(b.fields)
    /\ \A j \in 1..Len(a.fields) :
          /\ a.fields[j].field.size = b.fields[j].field.size
          /\ IsClassSpec(a.fields[j].field) =>
                a.fields[j].field.msg_type = b.fields[j].field.msg_type
    /\ a.constants = b.constants

\* the names of the fields a file declares
DeclaredNames(out) == {out.code.fields_code[j].name : j \in 1..Len(out.code.fields_code)}

\* C22 as stated: a node that the registry accepted against the stored node of
\* its type name is emitted as the same source text as the stored node.
C22_AcceptedSameText ==
    FoldAccepted =>
       \A n \in FoldedNodes(last_fold.spec, blacklist) :
          (EmitError(n) = "" /\ EmitError(StoredFor(n)) = "") =>
             EmitOf(n) = EmitOf(StoredFor(n))

\* C22: a node that the registry accepted against the stored node of its type
\* name is emitted to the same path, as the same class, stamped with the same
\* type name and declaring the same set of field names as the stored node;
\* the two source texts are the same when the nodes also agree on the order
\* of the fields, their list shapes, the type names of the composite fields
\* and the constants, none of which the equality compares.
C22_AcceptedSameTextWhenSameLayout ==
    FoldAccepted =>
       \A n \in FoldedNodes(last_fold.spec, blacklist) :
          (EmitError(n) = "" /\ EmitError(StoredFor(n)) = "") =>
             /\ EmitOf(n).path = EmitOf(StoredFor(n)).path
             /\ EmitOf(n).code.class_name = EmitOf(StoredFor(n)).code.class_name
             /\ EmitOf(n).code.type = EmitOf(StoredFor(n)).code.type
             /\ DeclaredNames(EmitOf(n)) = DeclaredNames(EmitOf(StoredFor(n)))
             /\ SameLayout(n, StoredFor(n)) => EmitOf(n) = EmitOf(StoredFor(n))

\* pkg/B was stored as the scalar field of pkg/A and then accepted as the
\* element of the variable list of pkg/E: two nodes that differ, in their own
\* list shape, and are emitted as the same text
C22_Witness ==
    /\ FoldAccepted
    /\ last_fold.spec = BuiltOf(MsgE)
    /\ MsgB.type \in DictKeys(last_fold.before)
    /\ MsgB.type \notin blacklist
    /\ \E n \in FoldedNodes(last_fold.spec, blacklist) :
          /\ n.msg_type = MsgB.type
          /\ n # StoredFor(n)
          /\ SameLayout(n, StoredFor(n))
          /\ EmitOf(n) = EmitOf(StoredFor(n))

----------------------------------------------------------------------------
\* the qualified name of the class that file k declares
DeclaredClass(k) == written[k].code.package \o "." \o written[k].code.class_name

\* the composite fields, over all files written, whose nested type is not
\* excluded and satisfies want: the fields emit qualifies with the local
\* namespace
LocalRefs(want(_)) ==
    {<<i, j>> \in (1..Len(written)) \X (1..8) :
        /\ j <= Len(unique_objects[i].spec.fields)
        /\ IsClassSpec(unique_objects[i].spec.fields[j].field)
        /\ unique_objects[i].spec.fields[j].field.msg_type \notin blacklist
        /\ want(unique_objects[i].spec.fields[j].field)}

\* every such field refers, in its declaration and in its getter, to a class
\* that a file of the run declares
RefsWritten(want(_)) ==
    Completed =>
       \A r \in LocalRefs(want) :
          \E k \in 1..Len(written) :
             /\ written[r[1]].code.fields_code[r[2]].type
                   = ShapedType(unique_objects[r[1]].spec.fields[r[2]].field.size,
                                DeclaredClass(k))
             /\ written[r[1]].code.getters[r[2]].type
                   = ShapedType(unique_objects[r[1]].spec.fields[r[2]].field.size,
                                DeclaredClass(k))

AnyComposite(field) == TRUE
IsMessageComposite(field) == field.cls = "JavaClassSpec"

\* C23: after a run, for every file written and every composite field of it
\* whose nested type is not excluded, the time and duration composites
\* included, the run has written a file that declares exactly the class the
\* field's type reference names in the local namespace.
C23_LocalRefsWritten == RefsWritten(AnyComposite)

\* what is left of C23 for the fields of message types
MessageRefsWritten == RefsWritten(IsMessageComposite)

\* a run has written a class with a field of a message type that is not
\* excluded, in a list shape
MessageRefsWrittenWitness ==
    /\ Completed
    /\ \E r \in LocalRefs(IsMessageComposite) :
          unique_objects[r[1]].spec.fields[r[2]].field.size > 0

----------------------------------------------------------------------------
\* the path emit returns for registry entry k
PathOfEntry(k) == CodeParts(root_path, unique_objects[k].spec, ExternalRoot, blacklist).path

\* C24: two different type names in the registry, a prefixed std_msgs name
\* included, are emitted to different paths, and the files a run writes for
\* different type names are written to different paths: no file of the run
\* is overwritten by the file of another type.
C24_PathsInjective ==
    /\ \A i, j \in 1..Len(unique_objects) :
          unique_objects[i].name # unique_objects[j].name =>
             PathOfEntry(i) # PathOfEntry(j)
    /\ \A i, j \in 1..Len(written) :
          unique_objects[i].name # unique_objects[j].name =>
             written[i].path # written[j].path

\* std_msgs/Header, whose class is named RosHeader, and pkg/RosHeader were
\* both written, to two paths
C24_Witness ==
    /\ Completed
    /\ Len(written) = 2
    /\ {unique_objects[k].name : k \in 1..2} = {MsgHeader.type, MsgPkgRosHeader.type}
    /\ written[1].code.class_name = written[2].code.class_name
    /\ written[1].path # written[2].path

====
